---- MODULE Spec2Model ----
(***************************************************************************)
(* Model of the participation tracker's update engine (src/app.py):        *)
(* the CSV tables, the cached table loader, the unresolved-identifier log  *)
(* and the two read-modify-write operations update_employee_event_status   *)
(* and update_cohort_membership.                                           *)
(*                                                                         *)
(* Representation.                                                         *)
(*  - An identifier (Standard ID, Event ID, cohort name, e-mail) is an     *)
(*    atomic string without commas; StrOrder gives Python's str order.     *)
(*  - A list-valued cell "a,b,c" is the sequence <<"a","b","c">> of the    *)
(*    substrings between its commas; the empty cell "" is <<>>.            *)
(*  - A free-text cell (Notes) is the sequence of its characters.          *)
(*  - A timestamp is a number of seconds; 0 stands for the empty cell.     *)
(*  - A DataFrame is the sequence of its rows, a row a record.             *)
(***************************************************************************)
EXTENDS Integers, Sequences, FiniteSets, TLC

VARIABLES
    events_csv,          \* data/events.csv: sequence of event rows
    cohorts_csv,         \* data/cohorts.csv: sequence of cohort rows
    participants_csv,    \* data/participants.csv: sequence of participant rows
    could_not_find_csv,  \* data/could_not_find.csv: sequence of log rows
    employees_csv,       \* data/employees.csv: sequence of employee rows
    cache,               \* st.cache_data store of load_table: key -> <<>> or <<df>>
    clock,               \* the last value datetime.now() returned (seconds)
    pc,                  \* "idle": no call in progress; "returned": a call has returned
    call,                \* arguments of the call that has returned
    ret,                 \* the tuple it returned
    pre,                 \* the files as they were when that call started
    version_json,        \* version.json: "absent", "corrupt", "{}" or the version it records
    backups,             \* backups/: timestamp -> the files of backup_<timestamp>
    data_dir             \* whether the directory data/ exists

vars == <<events_csv, cohorts_csv, participants_csv, could_not_find_csv,
          employees_csv, cache, clock, pc, call, ret, pre,
          version_json, backups, data_dir>>

\* What lies beside the table files: the schema marker, the backups
\* directory and the data directory itself
installation == <<version_json, backups, data_dir>>

\* The schema version this build of the application expects
APP_VERSION == "1.2.3"

\* backups/ with no backup in it
NoBackups == <<>>

\* An installation that is up to date and has never been backed up
Installed ==
    /\ version_json = APP_VERSION
    /\ backups = NoBackups
    /\ data_dir = TRUE

----------------------------------------------------------------------------
(* Bounds of the model *)

MaxClock == 2
MaxLog == 3

----------------------------------------------------------------------------
(* Strings *)

Range(s) == {s[i] : i \in 1..Len(s)}

\* Python's order on the strings that ever get sorted (code point order).
StrOrder == <<"", "C0", "C1", "E1", "V0", "V1", "n@x.com", "u@x.com">>

\* '@' in s
AtStrings == {"u@x.com", "n@x.com", "alice@x.com", "uma@x.com"}
HasAt(s) == s \in AtStrings

\* sorted(list(S)) for a set S of strings
sorted(S) == SelectSeq(StrOrder, LAMBDA x : x \in S)

\* sorted(xs) for a list xs of strings (repetitions are kept)
sorted_list(xs) ==
    LET upto[i \in 0..Len(StrOrder)] ==
            IF i = 0 THEN <<>>
            ELSE upto[i - 1] \o SelectSeq(xs, LAMBDA x : x = StrOrder[i])
    IN  upto[Len(StrOrder)]

\* filter(None, xs): drops the empty string
FilterNone(S) == {x \in S : x # ""}

\* cell.split(','): the empty string splits into one empty substring
split(cell) == IF cell = <<>> THEN <<"">> ELSE cell

\* set(str(cell).split(',') if cell else [])
CellSet(cell) == IF cell # <<>> THEN Range(split(cell)) ELSE {}

\* Variant: the entries are joined as the set happens to yield them, here
\* from the last to the first.
join_unsorted(S) ==
    LET up == sorted(FilterNone(S))
    IN  [i \in 1..Len(up) |-> up[Len(up) + 1 - i]]

\* ",".join(sorted(list(filter(None, s))))
JoinSorted(S) == sorted(FilterNone(S))

\* len(set(filter(None, str(cell).split(','))))
CellCount(cell) == Cardinality(FilterNone(Range(split(cell))))

\* Free text: a string is the sequence of its characters.
Whitespace == {" ", "\n"}

\* needle in text (Python's substring test)
IsSubstring(needle, text) ==
    \E i \in 0..(Len(text) - Len(needle)) :
        \A j \in 1..Len(needle) : text[i + j] = needle[j]

\* text.strip()
strip(text) ==
    LET keep == {i \in 1..Len(text) : text[i] \notin Whitespace}
    IN  IF keep = {} THEN <<>>
        ELSE LET lo == CHOOSE i \in keep : \A j \in keep : i <= j
                 hi == CHOOSE i \in keep : \A j \in keep : i >= j
             IN  SubSeq(text, lo, hi)

----------------------------------------------------------------------------
(* Tables *)

TableKeys == {"participants", "events", "cohorts", "employees"}

\* Values of the Date columns that pandas.to_datetime can parse.
ParseableDates == {"2024-01-01"}

\* pd.to_datetime(column, errors='coerce'): an unparseable value becomes NaT
to_datetime(s) == IF s \in ParseableDates THEN s ELSE "NaT"

\* DataFrame.to_csv of a datetime column: NaT is written as the empty field
date_to_csv(d) == IF d = "NaT" THEN "" ELSE d

\* The body of load_table for a file that exists and has the canonical
\* columns: what pd.read_csv and the per-table post-processing return.
read_table(key, file) ==
    CASE key = "events" ->
           [i \in 1..Len(file) |-> [file[i] EXCEPT !.Date = to_datetime(@)]]
      [] key = "cohorts" ->
           [i \in 1..Len(file) |-> [file[i] EXCEPT !.DateStarted = to_datetime(@)]]
      [] key = "employees" ->
           [i \in 1..Len(file) |->
               [StandardID |-> file[i].StandardID, Email |-> file[i].WorkEmailAddress]]
      [] OTHER -> file

NoCache == [k \in TableKeys |-> <<>>]

\* load_table under @st.cache_data: a cached entry is returned without
\* reading the file; loading employees clears the whole cache on the way.
load_table(c, key, file) ==
    IF c[key] # <<>>
    THEN [df |-> c[key][1], cache |-> c]
    ELSE LET df == read_table(key, file)
             c1 == IF key = "employees" THEN NoCache ELSE c
         IN  [df |-> df, cache |-> [c1 EXCEPT ![key] = <<df>>]]

\* save_table: the file contents df.to_csv(path, index=False) writes
save_table(key, df) ==
    CASE key = "events" ->
           [i \in 1..Len(df) |-> [df[i] EXCEPT !.Date = date_to_csv(@)]]
      [] key = "cohorts" ->
           [i \in 1..Len(df) |-> [df[i] EXCEPT !.DateStarted = date_to_csv(@)]]
      [] key = "employees" ->
           [i \in 1..Len(df) |->
               [StandardID |-> df[i].StandardID, WorkEmailAddress |-> df[i].Email]]
      [] OTHER -> df

\* Variant: the log file is written anew, with the one row.
log_latest_only(log, identifier, now) ==
    <<[Identifier |-> identifier, Timestamp |-> now]>>

\* log_absent_identifier: one row [identifier, now] appended to the log file
log_absent_identifier(log, identifier, now) ==
    Append(log, [Identifier |-> identifier, Timestamp |-> now])

EventRow(id, date, reg, part, host) ==
    [EventID |-> id, Name |-> "Kickoff", Date |-> date, Category |-> "Demo",
     Workshop |-> "", Hosted |-> host, Registrations |-> reg, Participants |-> part]

CohortRow(name, date, nom, inv, joined) ==
    [Name |-> name, DateStarted |-> date, Nominated |-> nom, Invited |-> inv,
     Joined |-> joined]

\* {col: "" for col in participants_df.columns}
BlankParticipantRow ==
    [StandardID |-> "", Email |-> "", EventsRegistered |-> <<>>,
     EventsParticipated |-> <<>>, EventsHosted |-> <<>>, Waitlist |-> "",
     CohortsNominated |-> <<>>, CohortsInvited |-> <<>>, CohortsJoined |-> <<>>,
     NominatedBy |-> <<>>, Notes |-> <<>>, Tags |-> "", LastUpdated |-> 0]

\* Variant: the employees table is consulted first, the '@' test second.
email_employee_first(emp_id, employees_df) ==
    LET emp_details == {i \in 1..Len(employees_df) : employees_df[i].StandardID = emp_id}
    IN  IF emp_details # {}
        THEN employees_df[CHOOSE i \in emp_details : \A j \in emp_details : i <= j].Email
        ELSE IF HasAt(emp_id) THEN emp_id ELSE ""

\* e-mail given to a participant row created for emp_id
email_for_new_participant(emp_id, employees_df) ==
    LET emp_details == {i \in 1..Len(employees_df) : employees_df[i].StandardID = emp_id}
    IN  IF HasAt(emp_id) THEN emp_id
        ELSE IF emp_details # {}
             THEN employees_df[CHOOSE i \in emp_details : \A j \in emp_details : i <= j].Email
             ELSE ""

\* Variant: the look-up finds no row, so that every key is given a new one.
participant_idx_not_found(df, emp_id) == 0

\* index of the first row whose Standard ID is emp_id (0 if there is none)
participant_idx(df, emp_id) ==
    LET hits == {i \in 1..Len(df) : df[i].StandardID = emp_id}
    IN  IF hits = {} THEN 0 ELSE CHOOSE i \in hits : \A j \in hits : i <= j

----------------------------------------------------------------------------
(* update_employee_event_status *)

\* "mark_x is True"
IsTrue(flag) == flag = "True"

\* Variant: a flag that is not True takes the supplied ids out of the list.
event_cell_sync(cell, flag, keys) ==
    JoinSorted(IF IsTrue(flag) THEN CellSet(cell) \cup Range(keys)
               ELSE CellSet(cell) \ Range(keys))

\* One of the three list cells of the event row after the loop that adds
\* every supplied id when the flag is True, and its re-serialisation.
event_cell_update(cell, flag, keys) ==
    JoinSorted(IF IsTrue(flag) THEN CellSet(cell) \cup Range(keys) ELSE CellSet(cell))

\* Variant: the final length is returned, the initial one not subtracted.
final_count(old_cell, new_cell, flag) ==
    IF IsTrue(flag) THEN CellCount(new_cell) ELSE 0

\* newly_*_count: final length minus initial length, when the flag is True
newly_added_count(old_cell, new_cell, flag) ==
    IF IsTrue(flag)
    THEN CellCount(new_cell) - Cardinality(CellSet(old_cell) \ {""})
    ELSE 0

\* The event row after "--- Update events.csv ---"
event_row_update(row, a) ==
    [row EXCEPT
        !.Registrations = event_cell_update(@, a.flags[1], a.keys),
        !.Participants  = event_cell_update(@, a.flags[2], a.keys),
        !.Hosted        = event_cell_update(@, a.flags[3], a.keys)]

\* The row appended to participants_df for an id that has none (event update)
new_event_participant_row(emp_id, employees_df) ==
    [BlankParticipantRow EXCEPT
        !.StandardID = emp_id,
        !.Email = email_for_new_participant(emp_id, employees_df),
        !.Waitlist = "No"]

\* Variant: the cell is re-serialised but the event id is never added.
participant_event_cell_kept(cell, flag, event_id) ==
    JoinSorted(CellSet(cell))

\* One of the three event-list cells of a participant row
participant_event_cell(cell, flag, event_id) ==
    JoinSorted(IF IsTrue(flag) /\ event_id \notin CellSet(cell)
               THEN CellSet(cell) \cup {event_id}
               ELSE CellSet(cell))

\* Variant: any True flag counts as an action on the record.
event_action_any_flag(row, a) ==
    IsTrue(a.flags[1]) \/ IsTrue(a.flags[2]) \/ IsTrue(a.flags[3])

\* action_taken_on_participant_record
event_action_taken(row, a) ==
    \/ IsTrue(a.flags[1]) /\ a.target \notin CellSet(row.EventsRegistered)
    \/ IsTrue(a.flags[2]) /\ a.target \notin CellSet(row.EventsParticipated)
    \/ IsTrue(a.flags[3]) /\ a.target \notin CellSet(row.EventsHosted)

\* The participant row after one iteration of the participants loop
participant_event_update(row, a) ==
    [row EXCEPT
        !.EventsRegistered   = participant_event_cell(@, a.flags[1], a.target),
        !.EventsParticipated = participant_event_cell(@, a.flags[2], a.target),
        !.EventsHosted       = participant_event_cell(@, a.flags[3], a.target),
        !.LastUpdated = IF event_action_taken(row, a) THEN a.now ELSE @]

\* Variant: an id without a row gets one only when some flag is True.
event_participant_step_if_marked(st, emp_id, a, employees_df) ==
    LET log1 == IF emp_id \in a.absent
                THEN log_absent_identifier(st.log, emp_id, a.now)
                ELSE st.log
        idx == participant_idx(st.df, emp_id)
    IN  IF idx = 0
        THEN IF IsTrue(a.flags[1]) \/ IsTrue(a.flags[2]) \/ IsTrue(a.flags[3])
             THEN [df |-> Append(st.df,
                                 participant_event_update(
                                     new_event_participant_row(emp_id, employees_df), a)),
                   log |-> log1]
             ELSE [df |-> st.df, log |-> log1]
        ELSE [df |-> [st.df EXCEPT ![idx] = participant_event_update(@, a)],
              log |-> log1]

\* One iteration of "for emp_id in employee_ids_to_process" over
\* st = [df |-> participants_df, log |-> could_not_find.csv]
event_participant_step(st, emp_id, a, employees_df) ==
    LET log1 == IF emp_id \in a.absent
                THEN log_absent_identifier(st.log, emp_id, a.now)
                ELSE st.log
        df1  == IF participant_idx(st.df, emp_id) = 0
                THEN Append(st.df, new_event_participant_row(emp_id, employees_df))
                ELSE st.df
        idx  == participant_idx(df1, emp_id)
    IN  [df  |-> [df1 EXCEPT ![idx] = participant_event_update(@, a)],
         log |-> log1]

RECURSIVE event_participants_loop(_, _, _, _)
event_participants_loop(st, i, a, employees_df) ==
    IF i > Len(a.keys) THEN st
    ELSE event_participants_loop(
             event_participant_step(st, a.keys[i], a, employees_df),
             i + 1, a, employees_df)

\* Variant: an id that matches no row falls back to the first row.
event_idx_or_first(events_df, event_id) ==
    LET hits == {i \in 1..Len(events_df) : events_df[i].EventID = event_id}
    IN  IF hits = {} THEN 1 ELSE CHOOSE i \in hits : \A j \in hits : i <= j

\* index of the first event row whose Event ID is event_id (0 if none)
event_idx(events_df, event_id) ==
    LET hits == {i \in 1..Len(events_df) : events_df[i].EventID = event_id}
    IN  IF hits = {} THEN 0 ELSE CHOOSE i \in hits : \A j \in hits : i <= j

\* What one call leaves behind, given the cache c and the files f it starts
\* from: the returned tuple, the cache and the files.
Unchanged(c, f) ==
    [ret |-> <<0, 0, 0>>, cache |-> c, events |-> f.events, cohorts |-> f.cohorts,
     participants |-> f.participants, log |-> f.log]

update_employee_event_status(c, f, a) ==
    IF a.target = "" \/ a.keys = <<>>
    THEN Unchanged(c, f)
    ELSE
    LET l1 == load_table(c, "participants", f.participants)
        l2 == load_table(l1.cache, "events", f.events)
        l3 == load_table(l2.cache, "employees", f.employees)
        events_df == l2.df
        idx == event_idx(events_df, a.target)
    IN  IF idx = 0
        THEN Unchanged(NoCache, f)
        ELSE
        LET new_row == event_row_update(events_df[idx], a)
            st == event_participants_loop(
                      [df |-> l1.df, log |-> f.log], 1, a, l3.df)
        IN  [ret |-> << newly_added_count(events_df[idx].Registrations,
                                          new_row.Registrations, a.flags[1]),
                        newly_added_count(events_df[idx].Participants,
                                          new_row.Participants, a.flags[2]),
                        newly_added_count(events_df[idx].Hosted,
                                          new_row.Hosted, a.flags[3]) >>,
             cache |-> NoCache,
             events |-> save_table("events", [events_df EXCEPT ![idx] = new_row]),
             cohorts |-> f.cohorts,
             participants |-> save_table("participants", st.df),
             log |-> st.log]

----------------------------------------------------------------------------
(* update_cohort_membership *)

\* "if mark_x:"
Truthy(flag) == flag = "True"

\* Variant: on "add" the ids are appended to the cell as a list, whether
\* they are in it or not.
cohort_cell_appended(cell, flag, keys, action_type) ==
    IF ~Truthy(flag) THEN cell
    ELSE IF action_type = "add"
         THEN cell \o keys
         ELSE JoinSorted(CellSet(cell) \ Range(keys))

\* One of the three list cells of the cohort row: untouched unless the flag
\* is set, else the union with (add) or the difference from (remove) the ids.
cohort_cell_update(cell, flag, keys, action_type) ==
    IF ~Truthy(flag) THEN cell
    ELSE IF action_type = "add"
         THEN JoinSorted(CellSet(cell) \cup Range(keys))
         ELSE JoinSorted(CellSet(cell) \ Range(keys))

\* Variant: the size difference is taken in the direction of "add" always.
cohort_count_added(old_cell, new_cell, flag, action_type) ==
    IF ~Truthy(flag) THEN 0
    ELSE Cardinality(FilterNone(Range(new_cell))) - Cardinality(CellSet(old_cell) \ {""})

\* added_*_count: size difference of the cell, in the direction of the action
cohort_count(old_cell, new_cell, flag, action_type) ==
    IF ~Truthy(flag) THEN 0
    ELSE IF action_type = "add"
         THEN Cardinality(FilterNone(Range(new_cell)))
                  - Cardinality(CellSet(old_cell) \ {""})
         ELSE Cardinality(CellSet(old_cell) \ {""})
                  - Cardinality(FilterNone(Range(new_cell)))

\* The cohort row after "--- Update cohorts.csv ---"
cohort_row_update(row, a) ==
    [row EXCEPT
        !.Nominated = cohort_cell_update(@, a.flags[1], a.keys, a.action_type),
        !.Invited   = cohort_cell_update(@, a.flags[2], a.keys, a.action_type),
        !.Joined    = cohort_cell_update(@, a.flags[3], a.keys, a.action_type)]

\* Variant: the name is added on "add" but never removed.
participant_cohort_cell_add_only(cell, flag, cohort_name, action_type) ==
    IF Truthy(flag) /\ action_type = "add" /\ cohort_name \notin CellSet(cell)
    THEN JoinSorted(CellSet(cell) \cup {cohort_name})
    ELSE cell

\* One of the three cohort-list cells of an existing participant row: it is
\* rewritten only when the name is added to or removed from it.
participant_cohort_cell(cell, flag, cohort_name, action_type) ==
    IF Truthy(flag) /\ action_type = "add" /\ cohort_name \notin CellSet(cell)
    THEN JoinSorted(CellSet(cell) \cup {cohort_name})
    ELSE IF Truthy(flag) /\ action_type = "remove" /\ cohort_name \in CellSet(cell)
         THEN JoinSorted(CellSet(cell) \ {cohort_name})
         ELSE cell

\* whether that cell is rewritten (participant_row_changed = True)
participant_cohort_cell_changed(cell, flag, cohort_name, action_type) ==
    \/ Truthy(flag) /\ action_type = "add" /\ cohort_name \notin CellSet(cell)
    \/ Truthy(flag) /\ action_type = "remove" /\ cohort_name \in CellSet(cell)

\* action_taken_for_cohort: set in each "if mark_x:" block
action_taken_for_cohort(a) ==
    Truthy(a.flags[1]) \/ Truthy(a.flags[2]) \/ Truthy(a.flags[3])

\* [x.strip() for x in str(cell).split(",") if x.strip()]: the cell holds
\* the entries joined by ", "
nominated_by_list(cell) == SelectSeq(cell, LAMBDA x : x # "")

\* Variant: the nominator is appended whatever the action.
nominated_by_appended_any_action(row, a) ==
    /\ action_taken_for_cohort(a)
    /\ a.nominated_by # ""
    /\ a.nominated_by \notin Range(nominated_by_list(row.NominatedBy))

\* whether nominated_by_details is appended to the Nominated By cell
nominated_by_appended(row, a) ==
    /\ action_taken_for_cohort(a)
    /\ a.nominated_by # ""
    /\ a.action_type = "add"
    /\ a.nominated_by \notin Range(nominated_by_list(row.NominatedBy))

\* ", ".join(sorted(list(filter(None, nominated_by_list + [details]))))
nominated_by_cell(row, a) ==
    IF nominated_by_appended(row, a)
    THEN sorted_list(SelectSeq(Append(nominated_by_list(row.NominatedBy), a.nominated_by),
                               LAMBDA x : x # ""))
    ELSE row.NominatedBy

\* whether the Notes cell is assigned
notes_assigned(row, a) ==
    /\ action_taken_for_cohort(a)
    /\ a.notes # <<>>
    /\ a.action_type = "add"
    /\ ~IsSubstring(a.notes, row.Notes)

\* f"{current_notes}\n{notes_details}".strip() if current_notes else notes_details
notes_cell(row, a) ==
    IF notes_assigned(row, a)
    THEN IF row.Notes # <<>> THEN strip(row.Notes \o <<"\n">> \o a.notes) ELSE a.notes
    ELSE row.Notes

\* participant_row_changed at the end of the iteration for an existing row
participant_row_changed(row, a) ==
    \/ participant_cohort_cell_changed(row.CohortsNominated, a.flags[1], a.target, a.action_type)
    \/ participant_cohort_cell_changed(row.CohortsInvited, a.flags[2], a.target, a.action_type)
    \/ participant_cohort_cell_changed(row.CohortsJoined, a.flags[3], a.target, a.action_type)
    \/ nominated_by_appended(row, a)
    \/ notes_assigned(row, a)

\* An existing participant row after its iteration of the loop
participant_cohort_update(row, a) ==
    [row EXCEPT
        !.CohortsNominated = participant_cohort_cell(@, a.flags[1], a.target, a.action_type),
        !.CohortsInvited   = participant_cohort_cell(@, a.flags[2], a.target, a.action_type),
        !.CohortsJoined    = participant_cohort_cell(@, a.flags[3], a.target, a.action_type),
        !.NominatedBy = nominated_by_cell(row, a),
        !.Notes = notes_cell(row, a),
        !.LastUpdated = IF participant_row_changed(row, a) THEN a.now ELSE @]

\* The row appended for an id that has none (cohort update, action add)
new_cohort_participant_row(emp_id, a, employees_df) ==
    [BlankParticipantRow EXCEPT
        !.StandardID = emp_id,
        !.Email = email_for_new_participant(emp_id, employees_df),
        !.Waitlist = "No",
        !.CohortsNominated = JoinSorted(IF Truthy(a.flags[1]) THEN {a.target} ELSE {}),
        !.CohortsInvited   = JoinSorted(IF Truthy(a.flags[2]) THEN {a.target} ELSE {}),
        !.CohortsJoined    = JoinSorted(IF Truthy(a.flags[3]) THEN {a.target} ELSE {}),
        !.NominatedBy = sorted_list(SelectSeq(
                            IF action_taken_for_cohort(a) /\ a.nominated_by # ""
                            THEN <<a.nominated_by>> ELSE <<>>,
                            LAMBDA x : x # "")),
        !.Notes = IF action_taken_for_cohort(a) /\ a.notes # <<>> THEN a.notes ELSE <<>>,
        !.LastUpdated = a.now]

\* One iteration of "for emp_id in employee_ids_to_process" over
\* st = [df, log, updated |-> participants_file_updated]
cohort_participant_step(st, emp_id, a, employees_df) ==
    LET log1 == IF emp_id \in a.absent
                THEN log_absent_identifier(st.log, emp_id, a.now)
                ELSE st.log
        idx == participant_idx(st.df, emp_id)
    IN  IF idx # 0
        THEN [df  |-> [st.df EXCEPT ![idx] = participant_cohort_update(@, a)],
              log |-> log1,
              updated |-> st.updated \/ participant_row_changed(st.df[idx], a)]
        ELSE IF a.action_type = "add"
             THEN [df  |-> Append(st.df, new_cohort_participant_row(emp_id, a, employees_df)),
                   log |-> log1,
                   updated |-> TRUE]
             ELSE [df |-> st.df, log |-> log1, updated |-> st.updated]

RECURSIVE cohort_participants_loop(_, _, _, _)
cohort_participants_loop(st, i, a, employees_df) ==
    IF i > Len(a.keys) THEN st
    ELSE cohort_participants_loop(
             cohort_participant_step(st, a.keys[i], a, employees_df),
             i + 1, a, employees_df)

\* index of the first cohort row whose Name is cohort_name (0 if none)
cohort_idx(cohorts_df, cohort_name) ==
    LET hits == {i \in 1..Len(cohorts_df) : cohorts_df[i].Name = cohort_name}
    IN  IF hits = {} THEN 0 ELSE CHOOSE i \in hits : \A j \in hits : i <= j

update_cohort_membership(c, f, a) ==
    IF a.target = "" \/ a.keys = <<>> \/ ~action_taken_for_cohort(a)
    THEN Unchanged(c, f)
    ELSE
    LET l1 == load_table(c, "cohorts", f.cohorts)
        l2 == load_table(l1.cache, "participants", f.participants)
        l3 == load_table(l2.cache, "employees", f.employees)
        cohorts_df == l1.df
        idx == cohort_idx(cohorts_df, a.target)
    IN  IF idx = 0
        THEN Unchanged(l3.cache, f)
        ELSE
        LET new_row == cohort_row_update(cohorts_df[idx], a)
            st == cohort_participants_loop(
                      [df |-> l2.df, log |-> f.log, updated |-> FALSE], 1, a, l3.df)
        IN  [ret |-> << cohort_count(cohorts_df[idx].Nominated, new_row.Nominated,
                                     a.flags[1], a.action_type),
                        cohort_count(cohorts_df[idx].Invited, new_row.Invited,
                                     a.flags[2], a.action_type),
                        cohort_count(cohorts_df[idx].Joined, new_row.Joined,
                                     a.flags[3], a.action_type) >>,
             cache |-> NoCache,
             events |-> f.events,
             cohorts |-> save_table("cohorts", [cohorts_df EXCEPT ![idx] = new_row]),
             participants |-> IF st.updated
                              THEN save_table("participants", st.df)
                              ELSE f.participants,
             log |-> st.log]

----------------------------------------------------------------------------
(* Inputs *)

MaxKeys == 2

\* Identifiers handed in by the caller: an employee, and an e-mail address
\* that matches no employee.
Keys == {"E1", "u@x.com"}

KeyLists == UNION {[1..n -> Keys] : n \in 0..MaxKeys}

\* The supplied ids that are no Standard ID of the employees table
Unresolved(keys, employees) ==
    {k \in Range(keys) : \A i \in 1..Len(employees) : employees[i].StandardID # k}

\* absent_ids_set: nothing (ids picked from a list are passed on without
\* being reported), what the resolver reports for the key list, or every
\* supplied id (the employees table has changed since the ids were resolved).
AbsentSets(keys, employees) == {{}, Unresolved(keys, employees), Range(keys)}

\* mark_registered, mark_participated, mark_hosted: checkbox values, and None
EventFlags ==
    [1..3 -> {"True", "False"}]
        \cup {<<"None", "None", "None">>, <<"None", "True", "None">>}

EventCall(keys, event_id, flags) ==
    [op |-> "event", keys |-> keys, target |-> event_id, flags |-> flags,
     action_type |-> "", nominated_by |-> "", notes |-> <<>>]

\* The calls of update_employee_event_status: for the event V1 every key
\* list with every flag combination; for an id that matches no row (V9)
\* every key list; and the calls that return at once (no event, no ids).
EventCalls ==
    {EventCall(k, "V1", fl) : k \in KeyLists \ {<<>>}, fl \in EventFlags}
    \cup {EventCall(k, "V9", <<"True", "True", "True">>) : k \in KeyLists \ {<<>>}}
    \cup {EventCall(<<>>, "V1", <<"True", "True", "True">>),
          EventCall(<<"E1">>, "", <<"True", "True", "True">>)}

\* mark_nominated, mark_invited, mark_joined: checkbox values
CohortFlags == [1..3 -> {"True", "False"}]

\* nominated_by_details and notes_details: nothing, a nominator with a
\* note, and a note that is blank.
Details ==
    {[nominated_by |-> "", notes |-> <<>>],
     [nominated_by |-> "n@x.com", notes |-> <<"a">>],
     [nominated_by |-> "", notes |-> <<" ">>]}

\* The calls of update_cohort_membership: for the cohort C1 every key list
\* with every flag combination, action and details; for a name that matches
\* no row (C9) every key list and action; and the calls that return at once
\* (no cohort, no ids, no flag).
CohortCalls ==
    {[op |-> "cohort", keys |-> k, target |-> "C1", flags |-> fl,
      action_type |-> act, nominated_by |-> d.nominated_by, notes |-> d.notes]
        : k \in KeyLists \ {<<>>},
          fl \in CohortFlags \ {<<"False", "False", "False">>},
          act \in {"add", "remove"}, d \in Details}
    \cup {[op |-> "cohort", keys |-> k, target |-> "C9",
           flags |-> <<"True", "True", "True">>, action_type |-> act,
           nominated_by |-> "n@x.com", notes |-> <<"a">>]
            : k \in KeyLists \ {<<>>}, act \in {"add", "remove"}}
    \cup {[op |-> "cohort", keys |-> k, target |-> t, flags |-> fl,
           action_type |-> "add", nominated_by |-> "n@x.com", notes |-> <<"a">>]
            : <<k, t, fl>> \in
                 {<< <<>>, "C1", <<"True", "True", "True">> >>,
                  << <<"E1">>, "", <<"True", "True", "True">> >>,
                  << <<"E1">>, "C1", <<"False", "False", "False">> >>}}

\* The calls that change membership only: no nominator and no note is
\* given for the cohort C1.
PlainCohortCalls ==
    {c \in CohortCalls :
        c.target = "C1" => (c.nominated_by = "" /\ c.notes = <<>>)}

----------------------------------------------------------------------------
(* State machine *)

Files ==
    [events |-> events_csv, cohorts |-> cohorts_csv,
     participants |-> participants_csv, log |-> could_not_find_csv,
     employees |-> employees_csv]

NoFiles ==
    [events |-> <<>>, cohorts |-> <<>>, participants |-> <<>>, log |-> <<>>,
     employees |-> <<>>]

NoCall ==
    [op |-> "none", keys |-> <<>>, absent |-> {}, target |-> "",
     flags |-> <<"None", "None", "None">>, nominated_by |-> "", notes |-> <<>>,
     action_type |-> "", now |-> 0, again |-> FALSE]

\* Tables before any update: two events, two cohorts, and one employee whose
\* Standard ID is an e-mail alias (E1 is no employee here).
FreshFiles ==
    [events |-> << EventRow("V0", "soon", <<>>, <<>>, <<>>),
                   EventRow("V1", "2024-01-01", <<>>, <<>>, <<>>) >>,
     cohorts |-> << CohortRow("C0", "2024-01-01", <<>>, <<>>, <<>>),
                    CohortRow("C1", "", <<>>, <<>>, <<>>) >>,
     participants |-> <<>>,
     log |-> <<>>,
     employees |-> << [StandardID |-> "u@x.com", WorkEmailAddress |-> "uma@x.com"] >>]

\* Consistent tables with history: E1 is the one employee; u@x.com, who is
\* none, was registered for V0 and nominated to C0 at second 1 (and logged
\* as unresolved), and the row was then edited by hand (waitlist, the note
\* "ab", tags).
SeededFiles ==
    [events |-> << EventRow("V0", "soon", <<"u@x.com">>, <<>>, <<>>),
                   EventRow("V1", "2024-01-01", <<>>, <<>>, <<>>) >>,
     cohorts |-> << CohortRow("C0", "2024-01-01", <<"u@x.com">>, <<>>, <<>>),
                    CohortRow("C1", "", <<>>, <<>>, <<>>) >>,
     participants |-> <<
        [BlankParticipantRow EXCEPT
            !.StandardID = "u@x.com", !.Email = "u@x.com",
            !.EventsRegistered = <<"V0">>, !.Waitlist = "Yes",
            !.CohortsNominated = <<"C0">>, !.NominatedBy = <<"n@x.com">>,
            !.Notes = <<"a", "b">>, !.Tags = "vip", !.LastUpdated = 1] >>,
     log |-> << [Identifier |-> "u@x.com", Timestamp |-> 1] >>,
     employees |-> << [StandardID |-> "E1", WorkEmailAddress |-> "alice@x.com"] >>]

Init ==
    /\ Installed
    /\ \E f \in {FreshFiles, SeededFiles} :
          /\ events_csv = f.events
          /\ cohorts_csv = f.cohorts
          /\ participants_csv = f.participants
          /\ could_not_find_csv = f.log
          /\ employees_csv = f.employees
    /\ cache = NoCache
    /\ clock = 1
    /\ pc = "idle"
    /\ call = NoCall
    /\ ret = <<0, 0, 0>>
    /\ pre = NoFiles

\* The call a returns r: the files and the cache are as it left them.
Return(a, r) ==
    /\ UNCHANGED installation
    /\ Len(r.log) <= MaxLog
    /\ events_csv' = r.events
    /\ cohorts_csv' = r.cohorts
    /\ participants_csv' = r.participants
    /\ could_not_find_csv' = r.log
    /\ UNCHANGED employees_csv
    /\ cache' = r.cache
    /\ clock' = a.now
    /\ pc' = "returned"
    /\ call' = a
    /\ ret' = r.ret
    /\ pre' = Files

\* The arguments of a call c made at second now with absent_ids_set absent
Args(c, absent, now) ==
    [NoCall EXCEPT !.op = c.op, !.keys = c.keys, !.absent = absent,
                   !.target = c.target, !.flags = c.flags,
                   !.nominated_by = c.nominated_by, !.notes = c.notes,
                   !.action_type = c.action_type, !.now = now]

\* What the call a leaves behind when it starts from cache c and files f
Run(c, f, a) ==
    IF a.op = "event"
    THEN update_employee_event_status(c, f, a)
    ELSE update_cohort_membership(c, f, a)

\* One call out of calls.  quiet: the call is made within the second of the
\* call before it and no id is reported as unresolved, so that it differs
\* from the other calls in the membership it asks for only.
Call(calls, quiet) ==
    /\ pc = "idle"
    /\ \E c \in calls :
       \E now \in (IF quiet THEN {clock} ELSE {clock, clock + 1}),
          absent \in (IF quiet THEN {{}} ELSE AbsentSets(c.keys, employees_csv)) :
          /\ now <= MaxClock
          /\ Return(Args(c, absent, now), Run(cache, Files, Args(c, absent, now)))

\* The "Update Event Status" handler: one call of update_employee_event_status
UpdateEventStatus == Call(EventCalls, FALSE)

\* The "Update Cohort Membership" handler: one call of update_cohort_membership
UpdateCohortMembership == Call(CohortCalls, FALSE)

\* The same handlers in quick succession, with nothing reported as
\* unresolved and (cohorts) no nominator or note given.
UpdateEventStatusQuiet == Call(EventCalls, TRUE)

UpdateCohortMembershipQuiet == Call(PlainCohortCalls, TRUE)

\* "Update Event Status" pressed once more with the form unchanged: the call
\* that has just returned is made again with the same arguments.
UpdateEventStatusAgain ==
    /\ pc = "returned"
    /\ call.op = "event"
    /\ ~call.again
    /\ \E now \in {clock, clock + 1} :
          LET a == [call EXCEPT !.again = TRUE, !.now = now]
          IN  /\ now <= MaxClock
              /\ Return(a, Run(cache, Files, a))

\* The caller reports the returned counts; the call is over.
ReportResult ==
    /\ UNCHANGED installation
    /\ pc = "returned"
    /\ pc' = "idle"
    /\ call' = NoCall
    /\ ret' = <<0, 0, 0>>
    /\ pre' = NoFiles
    /\ UNCHANGED <<events_csv, cohorts_csv, participants_csv, could_not_find_csv,
                   employees_csv, cache, clock>>

\* Any sequence of event-status updates.
NextEvent == UpdateEventStatusQuiet \/ ReportResult

SpecEvent == Init /\ [][NextEvent]_vars

\* Any sequence of cohort-membership updates.
NextCohort == UpdateCohortMembershipQuiet \/ ReportResult

SpecCohort == Init /\ [][NextCohort]_vars

\* The tables one quiet call at second 1 leaves behind, and any call made
\* on them (an event-status update possibly repeated).
InitCalls ==
    /\ Installed
    /\ \E f \in {FreshFiles, SeededFiles}, c \in EventCalls \cup PlainCohortCalls :
          LET r == Run(NoCache, f, Args(c, {}, 1))
          IN  /\ events_csv = r.events
              /\ cohorts_csv = r.cohorts
              /\ participants_csv = r.participants
              /\ could_not_find_csv = r.log
              /\ employees_csv = f.employees
              /\ cache = r.cache
    /\ clock = 1
    /\ pc = "idle"
    /\ call = NoCall
    /\ ret = <<0, 0, 0>>
    /\ pre = NoFiles

NextCalls == UpdateEventStatus \/ UpdateCohortMembership \/ UpdateEventStatusAgain

SpecCalls == InitCalls /\ [][NextCalls]_vars

----------------------------------------------------------------------------
(* Properties of the update engine.  A call that has returned is described  *)
(* by call (its arguments), ret (its result), pre (the files it started     *)
(* from) and the files as they are now.                                     *)

\* The three membership dimensions
Dimensions == {1, 2, 3}

EventList(row, d) ==
    CASE d = 1 -> row.Registrations [] d = 2 -> row.Participants [] OTHER -> row.Hosted

ParticipantEventList(row, d) ==
    CASE d = 1 -> row.EventsRegistered [] d = 2 -> row.EventsParticipated
      [] OTHER -> row.EventsHosted

CohortList(row, d) ==
    CASE d = 1 -> row.Nominated [] d = 2 -> row.Invited [] OTHER -> row.Joined

ParticipantCohortList(row, d) ==
    CASE d = 1 -> row.CohortsNominated [] d = 2 -> row.CohortsInvited
      [] OTHER -> row.CohortsJoined

\* the participant rows of id
RowsOf(participants, id) ==
    {j \in 1..Len(participants) : participants[j].StandardID = id}

\* E is in V's list iff V is in the matching list of E's participant row
EventsConsistent(events, participants) ==
    /\ \A i \in 1..Len(events), d \in Dimensions :
          \A E \in Range(EventList(events[i], d)) :
             \E j \in RowsOf(participants, E) :
                events[i].EventID \in Range(ParticipantEventList(participants[j], d))
    /\ \A j \in 1..Len(participants), d \in Dimensions :
          \A V \in Range(ParticipantEventList(participants[j], d)) :
             \E i \in 1..Len(events) :
                /\ events[i].EventID = V
                /\ participants[j].StandardID \in Range(EventList(events[i], d))

\* E is in C's list iff C is in the matching list of E's participant row
CohortsConsistent(cohorts, participants) ==
    /\ \A i \in 1..Len(cohorts), d \in Dimensions :
          \A E \in Range(CohortList(cohorts[i], d)) :
             \E j \in RowsOf(participants, E) :
                cohorts[i].Name \in Range(ParticipantCohortList(participants[j], d))
    /\ \A j \in 1..Len(participants), d \in Dimensions :
          \A C \in Range(ParticipantCohortList(participants[j], d)) :
             \E i \in 1..Len(cohorts) :
                /\ cohorts[i].Name = C
                /\ participants[j].StandardID \in Range(CohortList(cohorts[i], d))

\* The call that has returned went past the lookup of its event / cohort.
EventUpdateRan ==
    /\ pc = "returned"
    /\ call.op = "event"
    /\ call.keys # <<>>
    /\ \E i \in 1..Len(pre.events) : pre.events[i].EventID = call.target

CohortUpdateRan ==
    /\ pc = "returned"
    /\ call.op = "cohort"
    /\ call.keys # <<>>
    /\ \E d \in Dimensions : call.flags[d] = "True"
    /\ \E i \in 1..Len(pre.cohorts) : pre.cohorts[i].Name = call.target

\* the row of the event / the cohort the call names, before and after
EventBefore == pre.events[event_idx(pre.events, call.target)]
EventAfter == events_csv[event_idx(pre.events, call.target)]
CohortBefore == pre.cohorts[cohort_idx(pre.cohorts, call.target)]
CohortAfter == cohorts_csv[cohort_idx(pre.cohorts, call.target)]

\* the supplied keys that had no participant row when the call started
NewKeys == {k \in Range(call.keys) : RowsOf(pre.participants, k) = {}}

\* C1: from consistent events and participants tables, after any sequence of
\* event-status updates, an employee key is in an event's Registrations /
\* Participants / Hosted list iff the event id is in Events Registered /
\* Events Participated / Events Hosted of the key's participant row.
C1_EventTablesConsistent == EventsConsistent(events_csv, participants_csv)

\* Two updates with different ids and flags have been made on the event V1.
C1_Witness ==
    /\ pc = "returned"
    /\ call.op = "event"
    /\ "E1" \in Range(events_csv[2].Registrations)
    /\ "E1" \notin Range(events_csv[2].Hosted)
    /\ "u@x.com" \in Range(events_csv[2].Hosted)
    /\ "u@x.com" \notin Range(events_csv[2].Registrations)

\* C2: from consistent cohorts and participants tables, after any sequence
\* of cohort-membership updates (add or remove), an employee key is in a
\* cohort's Nominated / Invited / Joined list iff the cohort name is in
\* Cohorts Nominated / Cohorts Invited / Cohorts Joined of the key's
\* participant row (no row: empty lists).
C2_CohortTablesConsistent == CohortsConsistent(cohorts_csv, participants_csv)

\* A removal has taken one of two nominated ids out of the cohort C1.
C2_Witness ==
    /\ pc = "returned"
    /\ call.op = "cohort"
    /\ call.action_type = "remove"
    /\ ret[1] = 1
    /\ cohorts_csv[2].Nominated = <<"E1">>
    /\ "u@x.com" \in Range(cohorts_csv[2].Joined)

\* C3: the event-status update called a second time with the same arguments
\* leaves the events and participants files exactly as the first call left
\* them (Last Updated included) and returns (0, 0, 0).
C3_RepeatedEventUpdate ==
    (pc = "returned" /\ call.again) =>
        /\ events_csv = pre.events
        /\ participants_csv = pre.participants
        /\ ret = <<0, 0, 0>>

\* The repeated call was made a second later than the row of a supplied id
\* was last updated, for an existing event and with a True flag.
C3_Witness ==
    /\ EventUpdateRan
    /\ call.again
    /\ \E d \in Dimensions : call.flags[d] = "True"
    /\ \E j \in 1..Len(participants_csv) :
          /\ participants_csv[j].StandardID \in Range(call.keys)
          /\ participants_csv[j].LastUpdated < call.now
          /\ participants_csv[j].LastUpdated > 0

\* C4: for an existing event the update returns, per dimension, the number
\* of distinct supplied keys that were not in the event's list before the
\* call if the flag is True and 0 otherwise; no count is negative.
C4_EventCounts ==
    EventUpdateRan =>
        \A d \in Dimensions :
           /\ ret[d] = IF call.flags[d] = "True"
                       THEN Cardinality(Range(call.keys) \ Range(EventList(EventBefore, d)))
                       ELSE 0
           /\ ret[d] >= 0

\* Two distinct keys were supplied, one of them already in the list, and
\* the count returned for that dimension is 1.
C4_Witness ==
    /\ EventUpdateRan
    /\ Cardinality(Range(call.keys)) = 2
    /\ \E d \in Dimensions :
          /\ call.flags[d] = "True"
          /\ ret[d] = 1
          /\ Range(call.keys) \cap Range(EventList(EventBefore, d)) # {}

\* C5: an event id (cohort name) that matches no row makes the event-status
\* (cohort-membership) update return (0, 0, 0) and change nothing: events,
\* cohorts and participants tables and the unresolved-identifier log are
\* as before.
C5_UnknownTargetChangesNothing ==
    (/\ pc = "returned"
     /\ \/ call.op = "event" /\ \A i \in 1..Len(pre.events) : pre.events[i].EventID # call.target
        \/ call.op = "cohort" /\ \A i \in 1..Len(pre.cohorts) : pre.cohorts[i].Name # call.target)
    =>
        /\ ret = <<0, 0, 0>>
        /\ events_csv = pre.events
        /\ cohorts_csv = pre.cohorts
        /\ participants_csv = pre.participants
        /\ could_not_find_csv = pre.log

\* An event update for an id that matches no event, with an id reported as
\* unresolved that has no participant row.
C5_Witness ==
    /\ pc = "returned"
    /\ call.op = "event"
    /\ call.target = "V9"
    /\ call.absent \cap NewKeys # {}

\* C6: the event-status update only adds: every list field of every event
\* row and of every participant row is afterwards a superset of what it
\* was, and every participant row that existed is still there.
C6_EventUpdateAdditive ==
    (pc = "returned" /\ call.op = "event") =>
        /\ Len(events_csv) = Len(pre.events)
        /\ \A i \in 1..Len(pre.events) :
              /\ events_csv[i].EventID = pre.events[i].EventID
              /\ \A d \in Dimensions :
                    Range(EventList(pre.events[i], d)) \subseteq Range(EventList(events_csv[i], d))
        /\ Len(participants_csv) >= Len(pre.participants)
        /\ \A j \in 1..Len(pre.participants) :
              /\ participants_csv[j].StandardID = pre.participants[j].StandardID
              /\ Range(pre.participants[j].NominatedBy) \subseteq Range(participants_csv[j].NominatedBy)
              /\ \A d \in Dimensions :
                    /\ Range(ParticipantEventList(pre.participants[j], d))
                          \subseteq Range(ParticipantEventList(participants_csv[j], d))
                    /\ Range(ParticipantCohortList(pre.participants[j], d))
                          \subseteq Range(ParticipantCohortList(participants_csv[j], d))

\* An id that is in a list of the event is supplied with that flag not True.
C6_Witness ==
    /\ EventUpdateRan
    /\ \E d \in Dimensions :
          /\ call.flags[d] # "True"
          /\ Range(call.keys) \cap Range(EventList(EventBefore, d)) # {}
          /\ Range(call.keys) \cap Range(EventList(EventAfter, d)) # {}

\* C7: a cohort-membership update with action remove, in each dimension
\* whose flag is true, deletes exactly the supplied keys from the cohort's
\* list and the cohort name from the list of each supplied key's participant
\* row, and returns the number of supplied distinct keys that were in the
\* cohort's list; a dimension whose flag is false is unchanged on both
\* sides and its count is 0; no count is negative.
C7_CohortRemove ==
    (CohortUpdateRan /\ call.action_type = "remove") =>
        /\ Len(participants_csv) = Len(pre.participants)
        /\ \A d \in Dimensions :
              /\ ret[d] >= 0
              /\ IF call.flags[d] = "True"
                 THEN /\ CohortList(CohortAfter, d) =
                            SelectSeq(CohortList(CohortBefore, d),
                                      LAMBDA k : k \notin Range(call.keys))
                      /\ \A j \in 1..Len(pre.participants) :
                            pre.participants[j].StandardID \in Range(call.keys) =>
                               ParticipantCohortList(participants_csv[j], d) =
                                  SelectSeq(ParticipantCohortList(pre.participants[j], d),
                                            LAMBDA c : c # call.target)
                      /\ ret[d] = Cardinality(Range(call.keys)
                                                 \cap Range(CohortList(CohortBefore, d)))
                 ELSE /\ CohortList(CohortAfter, d) = CohortList(CohortBefore, d)
                      /\ \A j \in 1..Len(pre.participants) :
                            ParticipantCohortList(participants_csv[j], d) =
                               ParticipantCohortList(pre.participants[j], d)
                      /\ ret[d] = 0

\* Two distinct keys are removed from a dimension that held one of them,
\* while another dimension that holds a supplied key is not selected.
C7_Witness ==
    /\ CohortUpdateRan
    /\ call.action_type = "remove"
    /\ Cardinality(Range(call.keys)) = 2
    /\ \E d \in Dimensions : call.flags[d] = "True" /\ ret[d] = 1
    /\ \E d \in Dimensions :
          /\ call.flags[d] = "False"
          /\ Range(call.keys) \cap Range(CohortList(CohortAfter, d)) # {}

\* C8: a cohort-membership update with action remove changes the Nominated
\* By, Notes and Waitlist field of no participant row and creates no
\* participant row.
C8_RemoveFrame ==
    (pc = "returned" /\ call.op = "cohort" /\ call.action_type = "remove") =>
        /\ Len(participants_csv) = Len(pre.participants)
        /\ \A j \in 1..Len(pre.participants) :
              /\ participants_csv[j].StandardID = pre.participants[j].StandardID
              /\ participants_csv[j].NominatedBy = pre.participants[j].NominatedBy
              /\ participants_csv[j].Notes = pre.participants[j].Notes
              /\ participants_csv[j].Waitlist = pre.participants[j].Waitlist

\* A removal that names a nominator and a note, for one id whose row does
\* not have them yet and one id that has no row.
C8_Witness ==
    /\ CohortUpdateRan
    /\ call.action_type = "remove"
    /\ call.nominated_by # ""
    /\ call.notes # <<>>
    /\ NewKeys # {}
    /\ \E j \in 1..Len(pre.participants) :
          /\ pre.participants[j].StandardID \in Range(call.keys)
          /\ call.nominated_by \notin Range(pre.participants[j].NominatedBy)
          /\ call.target \in Range(pre.participants[j].CohortsNominated)
          /\ call.flags[1] = "True"

\* C9: in both operations the Last Updated field of a participant row that
\* existed before the call is overwritten only if some other field of that
\* row changed during the call.
C9_LastUpdatedOnlyOnChange ==
    pc = "returned" =>
        \A j \in 1..Len(pre.participants) :
           (j <= Len(participants_csv)
              /\ participants_csv[j].LastUpdated # pre.participants[j].LastUpdated)
           => [participants_csv[j] EXCEPT !.LastUpdated = 0]
                 # [pre.participants[j] EXCEPT !.LastUpdated = 0]

\* the employees table's e-mail for an employee key
IsEmployeeKey(k) == \E i \in 1..Len(employees_csv) : employees_csv[i].StandardID = k

EmployeeEmail(k) ==
    LET hits == {i \in 1..Len(employees_csv) : employees_csv[i].StandardID = k}
    IN  employees_csv[CHOOSE i \in hits : \A j \in hits : i <= j].WorkEmailAddress

\* An event-status update or a cohort add has processed its key list.
RowsCreated ==
    \/ EventUpdateRan
    \/ CohortUpdateRan /\ call.action_type = "add"

\* Exactly one row is appended for every key that had none, with that
\* Standard ID, Waitlist "No" and the e-mail email(k).
NewRowsHave(email(_)) ==
    /\ Len(participants_csv) = Len(pre.participants) + Cardinality(NewKeys)
    /\ \A k \in NewKeys :
          \E j \in RowsOf(participants_csv, k) :
             /\ RowsOf(participants_csv, k) = {j}
             /\ j > Len(pre.participants)
             /\ participants_csv[j].Waitlist = "No"
             /\ participants_csv[j].Email = email(k)

\* C10 as stated: an event-status update or a cohort add appends, for a key
\* that has no participant row, exactly one row with that Standard ID,
\* Waitlist "No", and as Email the employees table's e-mail if the key is
\* an employee key, otherwise the key itself if it contains '@' (and was
\* unresolved), otherwise nothing.
C10_NewRowEmployeeEmailFirst ==
    RowsCreated =>
        NewRowsHave(LAMBDA k : IF IsEmployeeKey(k) THEN EmployeeEmail(k)
                               ELSE IF HasAt(k) THEN k ELSE "")

\* C10, amended: an event-status update or a cohort add appends, for a key
\* that has no participant row, exactly one row with that Standard ID,
\* Waitlist "No", and as Email the key itself if the key contains '@',
\* otherwise the employees table's e-mail if the key is an employee key,
\* otherwise nothing.
C10_NewRowKeyFirst ==
    RowsCreated =>
        NewRowsHave(LAMBDA k : IF HasAt(k) THEN k
                               ELSE IF IsEmployeeKey(k) THEN EmployeeEmail(k) ELSE "")

\* Rows are created for an employee key that contains '@' and for a key that
\* is neither an employee key nor an e-mail address.
C10_Witness ==
    /\ RowsCreated
    /\ \E k \in NewKeys : HasAt(k) /\ IsEmployeeKey(k)
    /\ \E k \in NewKeys : ~HasAt(k) /\ ~IsEmployeeKey(k)

\* the newline-separated entries of a free text
Entries(text) ==
    LET cuts == {i \in 1..Len(text) : text[i] = "\n"} \cup {0, Len(text) + 1}
    IN  {SubSeq(text, p[1] + 1, p[2] - 1) :
            p \in {q \in cuts \X cuts :
                      q[1] < q[2] /\ \A k \in cuts : ~(q[1] < k /\ k < q[2])}}

\* A cohort add has processed its key list.
CohortAddRan == CohortUpdateRan /\ call.action_type = "add"

\* the rows that existed before the call and belong to a supplied key
SuppliedRows ==
    {j \in 1..Len(pre.participants) : pre.participants[j].StandardID \in Range(call.keys)}

\* the three cohort list fields of row j are as before the call
CohortListsKept(j) ==
    \A d \in Dimensions :
       ParticipantCohortList(participants_csv[j], d)
          = ParticipantCohortList(pre.participants[j], d)

\* C11: in a cohort add with a non-empty nominatedBy, nominatedBy is appended
\* to Nominated By only for participants the call newly affected (a cohort
\* list field of the row changed, or the row was created); a supplied
\* participant that was already in every requested list keeps Nominated By
\* unchanged; nominatedBy is never stored twice in a row.
C11_NominatedByOnlyNewlyAffected ==
    (CohortAddRan /\ call.nominated_by # "") =>
        /\ \A j \in 1..Len(pre.participants) :
              (j \notin SuppliedRows \/ CohortListsKept(j)) =>
                 participants_csv[j].NominatedBy = pre.participants[j].NominatedBy
        /\ \A j \in SuppliedRows :
              ~CohortListsKept(j) => call.nominated_by \in Range(participants_csv[j].NominatedBy)
        /\ \A j \in 1..Len(participants_csv) :
              /\ j > Len(pre.participants) =>
                    participants_csv[j].NominatedBy = <<call.nominated_by>>
              /\ Cardinality({i \in 1..Len(participants_csv[j].NominatedBy) :
                                 participants_csv[j].NominatedBy[i] = call.nominated_by}) <= 1

\* the Notes cell the claim C12 asks for
NotesWithEntry(notes, entry) ==
    IF entry \in Entries(notes) THEN notes
    ELSE IF notes = <<>> THEN entry ELSE notes \o <<"\n">> \o entry

\* C12: in a cohort add with non-empty notes, the text is appended to the
\* Notes of a supplied participant as a new newline-separated entry unless
\* an entry with exactly that text is already there; a text that only
\* occurs inside a longer entry is still appended.
C12_NotesAppendedUnlessExactEntry ==
    (CohortAddRan /\ call.notes # <<>>) =>
        /\ \A j \in SuppliedRows :
              participants_csv[j].Notes = NotesWithEntry(pre.participants[j].Notes, call.notes)
        /\ \A j \in 1..Len(participants_csv) :
              j > Len(pre.participants) => participants_csv[j].Notes = call.notes

\* s is an initial part of t
IsPrefix(s, t) == Len(s) <= Len(t) /\ SubSeq(t, 1, Len(s)) = s

\* the rows the call that has returned appended to the log
LoggedRows == SubSeq(could_not_find_csv, Len(pre.log) + 1, Len(could_not_find_csv))

\* The returned call left the earlier log rows alone and appended, with its
\* own timestamp, rows for the keys of its unresolved set and for no other:
\* one row each when no id is repeated in the key list.
UnresolvedLogged ==
    (EventUpdateRan \/ CohortUpdateRan) =>
        /\ IsPrefix(pre.log, could_not_find_csv)
        /\ {row.Identifier : row \in Range(LoggedRows)} = call.absent
        /\ \A row \in Range(LoggedRows) : row.Timestamp = call.now
        /\ Cardinality(Range(call.keys)) = Len(call.keys) =>
              Len(LoggedRows) = Cardinality(call.absent)

----------------------------------------------------------------------------
(* The identifier resolver (src/ui_components.py)                          *)
(*                                                                         *)
(* A text typed, pasted or uploaded is the sequence of its pieces: whole   *)
(* identifiers, and the single characters between them.  A string that     *)
(* comes out of the resolver is such a sequence too: <<"E1">> is the       *)
(* Standard ID E1, <<"E1", " ", "E2">> the token "E1 E2", <<>> the empty   *)
(* string.                                                                 *)

MaxText == 3

Pieces == {"E1", "E2", "alice@x.com", ",", "\n", " "}

Texts == UNION {[1..n -> Pieces] : n \in 0..MaxText}

\* A cell of the employees table as a text
Text(s) == IF s = "" THEN <<>> ELSE <<s>>

\* text.split(sep): the parts between the occurrences of sep
split_on(text, sep) ==
    LET at == SelectSeq([i \in 1..Len(text) |-> i], LAMBDA i : text[i] = sep)
        cuts == <<0>> \o at \o <<Len(text) + 1>>
    IN  [k \in 1..(Len(cuts) - 1) |-> SubSeq(text, cuts[k] + 1, cuts[k + 1] - 1)]

\* list.extend, once per element of a list of lists
Flatten(lists) ==
    LET upto[i \in 0..Len(lists)] ==
            IF i = 0 THEN <<>> ELSE upto[i - 1] \o lists[i]
    IN  upto[Len(lists)]

\* raw_items: the stripped text split at newlines, each line split at
\* commas, each item stripped, the empty items dropped
raw_items(raw_text) ==
    LET lines == split_on(strip(raw_text), "\n")
        items(line) ==
            LET parts == split_on(line, ",")
            IN  [k \in 1..Len(parts) |-> strip(parts[k])]
    IN  SelectSeq(Flatten([k \in 1..Len(lines) |-> items(lines[k])]),
                  LAMBDA item : item # <<>>)

\* "@" in identifier
is_email(identifier) == \E i \in 1..Len(identifier) : HasAt(identifier[i])

\* The rows email_to_id.get(identifier) selects
email_rows(employees_df, identifier) ==
    {i \in 1..Len(employees_df) : Text(employees_df[i].Email) = identifier}

\* set(employees_df["Standard ID"])
id_set(employees_df) ==
    {Text(employees_df[i].StandardID) : i \in 1..Len(employees_df)}

NoIdentifiers == [raised |-> FALSE, ids |-> <<>>, not_found |-> <<>>]

Raised == [raised |-> TRUE, ids |-> <<>>, not_found |-> <<>>]

\* One turn of "for identifier in raw_items".  An e-mail address that
\* labels several rows makes email_to_id.get return a Series, and
\* "if std_id:" raises ValueError on it; an empty Standard ID is falsy.
resolve_identifier(acc, identifier, employees_df) ==
    IF acc.raised THEN acc
    ELSE IF is_email(identifier)
    THEN LET rows == email_rows(employees_df, identifier)
         IN  IF Cardinality(rows) > 1 THEN Raised
             ELSE IF rows # {} /\ employees_df[CHOOSE i \in rows : TRUE].StandardID # ""
             THEN [acc EXCEPT !.ids =
                      Append(@, Text(employees_df[CHOOSE i \in rows : TRUE].StandardID))]
             ELSE [acc EXCEPT !.ids = Append(@, identifier),
                              !.not_found = Append(@, identifier)]
    ELSE IF identifier \notin id_set(employees_df)
    THEN [acc EXCEPT !.ids = Append(@, identifier),
                     !.not_found = Append(@, identifier)]
    ELSE [acc EXCEPT !.ids = Append(@, identifier)]

\* _parse_employee_identifiers(raw_text, employees_df)
parse_employee_identifiers(raw_text, employees_df) ==
    LET items == raw_items(raw_text)
        upto[i \in 0..Len(items)] ==
            IF i = 0 THEN NoIdentifiers
            ELSE resolve_identifier(upto[i - 1], items[i], employees_df)
    IN  upto[Len(items)]

\* Variant: every collected identifier is kept.
every_appearance(xs) == xs

\* "Deduplicate while preserving order of first appearance"
unique(xs) ==
    LET upto[i \in 0..Len(xs)] ==
            IF i = 0 THEN <<>>
            ELSE IF xs[i] \in Range(upto[i - 1]) THEN upto[i - 1]
            ELSE Append(upto[i - 1], xs[i])
    IN  upto[Len(xs)]

\* What the three tabs of employee_selector collect, in the order of the
\* tabs.  selected_opts: the rows picked in the multiselect, whose option
\* "<Standard ID> - <Email>" is cut at its first " - ".  uploaded_file: <<>>
\* for none, else <<content>>; a failure to read it is caught and reported.
collected(pasted_text, selected_opts, uploaded_file, employees_df) ==
    LET paste == IF pasted_text # <<>>
                 THEN parse_employee_identifiers(pasted_text, employees_df)
                 ELSE NoIdentifiers
        select == IF employees_df # <<>>
                  THEN [k \in 1..Len(selected_opts) |->
                           Text(employees_df[selected_opts[k]].StandardID)]
                  ELSE <<>>
        file == IF uploaded_file # <<>>
                THEN parse_employee_identifiers(uploaded_file[1], employees_df)
                ELSE NoIdentifiers
        upload == IF file.raised THEN NoIdentifiers ELSE file
    IN  IF paste.raised THEN Raised
        ELSE [raised |-> FALSE,
              ids |-> paste.ids \o select \o upload.ids,
              not_found |-> paste.not_found \o upload.not_found]

\* employee_selector(employees_df)
employee_selector(pasted_text, selected_opts, uploaded_file, employees_df) ==
    LET all == collected(pasted_text, selected_opts, uploaded_file, employees_df)
    IN  IF all.raised THEN Raised
        ELSE [raised |-> FALSE,
              ids |-> unique(all.ids),
              not_found |-> unique(all.not_found)]

\* employees.csv as the resolver may find it: empty; one employee; an
\* employee whose Standard ID cell is empty; two employees with one address.
ResolverEmployees ==
    { <<>>,
      << [StandardID |-> "E1", WorkEmailAddress |-> "alice@x.com"] >>,
      << [StandardID |-> "", WorkEmailAddress |-> "alice@x.com"] >>,
      << [StandardID |-> "E1", WorkEmailAddress |-> "alice@x.com"],
         [StandardID |-> "E2", WorkEmailAddress |-> "alice@x.com"] >> }

\* The widgets of the selector as the user left them: a pasted text, at
\* most one employee picked from the list, at most a short file.
FormInputs(employees) ==
    [op : {"form"},
     pasted_text : Texts,
     selected_opts : {<<>>} \cup {<<i>> : i \in 1..Len(employees)},
     uploaded_file : {<<>>} \cup {<<t>> : t \in {x \in Texts : Len(x) <= 1}}]

InitResolver ==
    /\ Installed
    /\ events_csv = <<>>
    /\ cohorts_csv = <<>>
    /\ participants_csv = <<>>
    /\ could_not_find_csv = <<>>
    /\ employees_csv \in ResolverEmployees
    /\ cache = NoCache
    /\ clock = 1
    /\ pc = "idle"
    /\ call \in FormInputs(employees_csv)
    /\ ret = NoIdentifiers
    /\ pre = NoFiles

\* The resolver proper, applied to the pasted text
ParseEmployeeIdentifiers ==
    /\ UNCHANGED installation
    /\ pc = "idle"
    /\ LET loaded == load_table(cache, "employees", employees_csv)
       IN  /\ ret' = parse_employee_identifiers(call.pasted_text, loaded.df)
           /\ cache' = loaded.cache
    /\ pc' = "returned"
    /\ call' = [call EXCEPT !.op = "parse"]
    /\ UNCHANGED <<events_csv, cohorts_csv, participants_csv, could_not_find_csv,
                   employees_csv, clock, pre>>

\* The selector component, applied to its three widgets
EmployeeSelector ==
    /\ UNCHANGED installation
    /\ pc = "idle"
    /\ LET loaded == load_table(cache, "employees", employees_csv)
       IN  /\ ret' = employee_selector(call.pasted_text, call.selected_opts,
                                       call.uploaded_file, loaded.df)
           /\ cache' = loaded.cache
    /\ pc' = "returned"
    /\ call' = [call EXCEPT !.op = "selector"]
    /\ UNCHANGED <<events_csv, cohorts_csv, participants_csv, could_not_find_csv,
                   employees_csv, clock, pre>>

NextResolver == ParseEmployeeIdentifiers \/ EmployeeSelector

SpecResolver == InitResolver /\ [][NextResolver]_vars

\* The non-empty trimmed tokens of a text cut at every newline and comma
Tokens(text) ==
    LET at == SelectSeq([i \in 1..Len(text) |-> i], LAMBDA i : text[i] \in {",", "\n"})
        cuts == <<0>> \o at \o <<Len(text) + 1>>
        parts == [k \in 1..(Len(cuts) - 1) |->
                     strip(SubSeq(text, cuts[k] + 1, cuts[k + 1] - 1))]
    IN  SelectSeq(parts, LAMBDA t : t # <<>>)

ParseRan == pc = "returned" /\ call.op = "parse"

SelectorRan == pc = "returned" /\ call.op = "selector"

ResolverEmployeesDf == read_table("employees", employees_csv)

\* the token is the Email of an employee
MatchesEmail(t) == email_rows(ResolverEmployeesDf, t) # {}

\* what the claim has the resolver report as unresolved
ClaimedUnresolved(t) ==
    IF is_email(t) THEN ~MatchesEmail(t) ELSE t \notin id_set(ResolverEmployeesDf)

\* C14: the resolver emits exactly one processing entry per non-empty
\* trimmed token of the input (cut at newlines and commas): a token with
\* '@' that is the Email of an employee is emitted as that employee's
\* Standard ID and is not unresolved; a token with '@' and no match is
\* emitted as itself and is unresolved; a token without '@' is emitted as
\* itself and is unresolved iff it is no employee's Standard ID.
C14_OneEntryPerToken ==
    ParseRan =>
        LET tokens == Tokens(call.pasted_text)
        IN  /\ ~ret.raised
            /\ Len(ret.ids) = Len(tokens)
            /\ \A i \in 1..Len(tokens) :
                  IF is_email(tokens[i]) /\ MatchesEmail(tokens[i])
                  THEN \E r \in email_rows(ResolverEmployeesDf, tokens[i]) :
                          ret.ids[i] = Text(ResolverEmployeesDf[r].StandardID)
                  ELSE ret.ids[i] = tokens[i]
            /\ ret.not_found = SelectSeq(tokens, ClaimedUnresolved)

\* xs has no entry twice
NoDuplicates(xs) == \A i, j \in 1..Len(xs) : xs[i] = xs[j] => i = j

\* position of the first x in xs
FirstAt(xs, x) == CHOOSE i \in 1..Len(xs) : xs[i] = x /\ \A j \in 1..(i - 1) : xs[j] # x

\* out lists the entries of xs, each once, in the order they first appear
FirstAppearances(out, xs) ==
    /\ NoDuplicates(out)
    /\ Range(out) = Range(xs)
    /\ \A i, j \in 1..Len(out) : i < j => FirstAt(xs, out[i]) < FirstAt(xs, out[j])

\* C15: both lists the selector returns (the identifiers for processing and
\* the unresolved ones) hold no entry twice and keep the order of first
\* appearance in the input, also when one employee is named once by
\* Standard ID and once by e-mail.
C15_ListsDeduplicated ==
    (SelectorRan /\ ~ret.raised) =>
        LET all == collected(call.pasted_text, call.selected_opts,
                             call.uploaded_file, ResolverEmployeesDf)
        IN  /\ FirstAppearances(ret.ids, all.ids)
            /\ FirstAppearances(ret.not_found, all.not_found)

\* The pasted text names employee E1 by Standard ID and by e-mail, and E1
\* is returned once.
C15_Witness ==
    /\ SelectorRan
    /\ ~ret.raised
    /\ Tokens(call.pasted_text) = << <<"E1">>, <<"alice@x.com">> >>
    /\ ret.ids = << <<"E1">> >>
    /\ ret.not_found = <<>>

----------------------------------------------------------------------------
(* The table store on any file (src/app.py, load_table and save_table)     *)
(*                                                                         *)
(* Here a CSV file is the record [exists, columns, rows]: whether it is    *)
(* there, the set of its header names, and its rows, each a record over    *)
(* those names.  A DataFrame is [columns, rows].  The order of columns is  *)
(* not kept.                                                               *)

\* FILES[key][1]: the canonical columns
FILES(key) ==
    CASE key = "events" ->
           {"EventID", "Name", "Date", "Category", "Workshop", "Hosted",
            "Registrations", "Participants"}
      [] key = "cohorts" -> {"Name", "DateStarted", "Nominated", "Invited", "Joined"}
      [] key = "employees" -> {"StandardID", "Email"}
      [] OTHER -> DOMAIN BlankParticipantRow

\* the column of a table that load_table turns into dates
date_column(key) ==
    CASE key = "events" -> {"Date"}
      [] key = "cohorts" -> {"DateStarted"}
      [] OTHER -> {}

AbsentFile == [exists |-> FALSE, columns |-> {}, rows |-> <<>>]

CsvFile(columns, rows) == [exists |-> TRUE, columns |-> columns, rows |-> rows]

\* df[col] = "" for every col of cols that df lacks
add_columns(rows, cols) ==
    [i \in 1..Len(rows) |->
        [c \in DOMAIN rows[i] \cup cols |->
            IF c \in DOMAIN rows[i] THEN rows[i][c] ELSE ""]]

\* df.rename(columns={from: to})
rename(df, from, to) ==
    IF from \notin df.columns THEN df
    ELSE [columns |-> (df.columns \ {from}) \cup {to},
          rows |-> [i \in 1..Len(df.rows) |->
                      [c \in (df.columns \ {from}) \cup {to} |->
                          IF c = to THEN df.rows[i][from] ELSE df.rows[i][c]]]]

\* df[cols]
select_columns(df, cols) ==
    [columns |-> cols,
     rows |-> [i \in 1..Len(df.rows) |-> [c \in cols |-> df.rows[i][c]]]]

\* df[col] = pd.to_datetime(df[col], errors='coerce') for the columns of
\* cols that df has
parse_dates(df, cols) ==
    [columns |-> df.columns,
     rows |-> [i \in 1..Len(df.rows) |->
                 [c \in df.columns |->
                     IF c \in cols THEN to_datetime(df.rows[i][c]) ELSE df.rows[i][c]]]]

\* to_csv of the datetime columns cols of df
write_dates(df, cols) ==
    [columns |-> df.columns,
     rows |-> [i \in 1..Len(df.rows) |->
                 [c \in df.columns |->
                     IF c \in cols THEN date_to_csv(df.rows[i][c]) ELSE df.rows[i][c]]]]

\* Variant: the file is written back after every read.
fixed_always(key, columns) == TRUE

\* validate_and_fix_csv_schema: a canonical column had to be added
was_fixed(key, columns) == FILES(key) \ columns # {}

\* Variant: the canonical columns are written and no other.
to_csv_canonical(key, df) ==
    LET named == IF key = "employees" THEN rename(df, "Email", "WorkEmailAddress") ELSE df
        cols == IF key = "employees" THEN {"StandardID", "WorkEmailAddress"} ELSE FILES(key)
    IN  CsvFile(cols, select_columns(write_dates(named, date_column(key)),
                                     cols).rows)

\* df_to_save.to_csv(path, index=False), after employees' Email has been
\* renamed back to Work Email Address
to_csv(key, df) ==
    LET named == IF key = "employees" THEN rename(df, "Email", "WorkEmailAddress") ELSE df
        text == write_dates(named, date_column(key))
    IN  CsvFile(text.columns, text.rows)

\* The body of load_table on the file of table key: the DataFrame it
\* returns, the file it leaves, and whether it wrote the file.
load_table_body(key, file) ==
    IF file.exists
    THEN LET read == [columns |-> file.columns, rows |-> file.rows]
             named == IF key = "employees"
                      THEN rename(read, "WorkEmailAddress", "Email") ELSE read
             ensured == IF key = "employees"
                        THEN [columns |-> named.columns \cup {"StandardID", "Email"},
                              rows |-> add_columns(named.rows, {"StandardID", "Email"})]
                        ELSE parse_dates(named, date_column(key))
             canonical_cols == IF key = "employees" THEN ensured.columns ELSE FILES(key)
             fixed == was_fixed(key, ensured.columns)
             df == [columns |-> ensured.columns \cup FILES(key),
                    rows |-> add_columns(ensured.rows, FILES(key))]
             dated == parse_dates(df, date_column(key))
         IN  [df |-> select_columns(dated, canonical_cols),
              file |-> IF fixed THEN to_csv(key, df) ELSE file,
              wrote |-> fixed]
    ELSE LET df == [columns |-> FILES(key), rows |-> <<>>]
         IN  [df |-> df, file |-> to_csv(key, df), wrote |-> TRUE]

\* load_table(key) under @st.cache_data, on any file
load_table_cached(c, key, file) ==
    IF c[key] # <<>>
    THEN [df |-> c[key][1], file |-> file, wrote |-> FALSE, cache |-> c]
    ELSE LET r == load_table_body(key, file)
             c1 == IF key = "employees" /\ file.exists THEN NoCache ELSE c
         IN  [df |-> r.df, file |-> r.file, wrote |-> r.wrote,
              cache |-> [c1 EXCEPT ![key] = <<r.df>>]]

\* a row of table key as found in a file
SampleRow(key) ==
    CASE key = "events" -> EventRow("V0", "2024-01-01", <<>>, <<>>, <<>>)
      [] key = "cohorts" -> CohortRow("C0", "soon", <<>>, <<>>, <<>>)
      [] key = "employees" -> [StandardID |-> "E1", WorkEmailAddress |-> "alice@x.com"]
      [] OTHER -> [BlankParticipantRow EXCEPT !.StandardID = "E1", !.Tags = "vip"]

\* The files load_table may find for table key: none; the header alone;
\* one row; a row and a column more; a file that lacks one of its
\* columns, with a row and without.
StoreFiles(key) ==
    LET row == SampleRow(key)
        cols == DOMAIN row
        without(c) == [d \in cols \ {c} |-> row[d]]
        with == [d \in cols \cup {"Comment"} |-> IF d = "Comment" THEN "hi" ELSE row[d]]
    IN  {AbsentFile, CsvFile(cols, <<>>), CsvFile(cols, <<row>>),
         CsvFile(cols \cup {"Comment"}, <<with>>)}
          \cup {CsvFile(cols \ {c}, <<without(c)>>) : c \in cols}
          \cup {CsvFile(cols \ {c}, <<>>) : c \in cols}

\* The file of table key
FileOf(key) ==
    CASE key = "events" -> events_csv
      [] key = "cohorts" -> cohorts_csv
      [] key = "employees" -> employees_csv
      [] OTHER -> participants_csv

\* The file of table key becomes file, the other files stay
WriteFile(key, file) ==
    /\ events_csv' = IF key = "events" THEN file ELSE events_csv
    /\ cohorts_csv' = IF key = "cohorts" THEN file ELSE cohorts_csv
    /\ employees_csv' = IF key = "employees" THEN file ELSE employees_csv
    /\ participants_csv' = IF key = "participants" THEN file ELSE participants_csv

\* One table has a file of any kind, the others have none yet.
InitStore ==
    /\ Installed
    /\ \E key \in TableKeys : \E file \in StoreFiles(key) :
          /\ events_csv = IF key = "events" THEN file ELSE AbsentFile
          /\ cohorts_csv = IF key = "cohorts" THEN file ELSE AbsentFile
          /\ employees_csv = IF key = "employees" THEN file ELSE AbsentFile
          /\ participants_csv = IF key = "participants" THEN file ELSE AbsentFile
    /\ could_not_find_csv = <<>>
    /\ cache = NoCache
    /\ clock = 1
    /\ pc = "idle"
    /\ call = [op |-> "none", key |-> ""]
    /\ ret = [df |-> [columns |-> {}, rows |-> <<>>], wrote |-> FALSE]
    /\ pre = [file |-> AbsentFile, first |-> [columns |-> {}, rows |-> <<>>]]

\* load_table(key) is called and returns
Loaded(key, op, next) ==
    LET r == load_table_cached(cache, key, FileOf(key))
    IN  /\ WriteFile(key, r.file)
        /\ cache' = r.cache
        /\ ret' = [df |-> r.df, wrote |-> r.wrote]
        /\ call' = [op |-> op, key |-> key]
        /\ pc' = next
        /\ UNCHANGED <<could_not_find_csv, clock>>
        /\ UNCHANGED installation

\* A page loads a table.
LoadTable ==
    /\ pc = "idle"
    /\ \E key \in TableKeys :
          /\ Loaded(key, "load", "loaded")
          /\ pre' = [file |-> FileOf(key),
                     first |-> load_table_cached(cache, key, FileOf(key)).df]

\* save_table(key, df) with the table that was just loaded
SaveTable ==
    /\ UNCHANGED installation
    /\ pc = "loaded"
    /\ WriteFile(call.key, to_csv(call.key, ret.df))
    /\ pc' = "saved"
    /\ call' = [call EXCEPT !.op = "save"]
    /\ UNCHANGED <<could_not_find_csv, cache, clock, ret, pre>>

\* load_table.clear()
ClearCache ==
    /\ UNCHANGED installation
    /\ cache # NoCache
    /\ cache' = NoCache
    /\ UNCHANGED <<events_csv, cohorts_csv, participants_csv, could_not_find_csv,
                   employees_csv, clock, pc, call, ret, pre>>

\* The table that was saved is loaded again.
LoadTableAgain ==
    /\ pc = "saved"
    /\ Loaded(call.key, "reload", "reloaded")
    /\ UNCHANGED pre

\* The script run ends; the next one starts with nothing in hand.
Rerun ==
    /\ UNCHANGED installation
    /\ pc \in {"loaded", "reloaded"}
    /\ pc' = "idle"
    /\ UNCHANGED <<events_csv, cohorts_csv, participants_csv, could_not_find_csv,
                   employees_csv, cache, clock, call, ret, pre>>

NextStore == LoadTable \/ SaveTable \/ ClearCache \/ LoadTableAgain \/ Rerun

SpecStore == InitStore /\ [][NextStore]_vars

\* a load_table call has returned
LoadRan == pc \in {"loaded", "reloaded"}

\* the name a canonical column has in the file
InFile(key, c) == IF key = "employees" /\ c = "Email" THEN "WorkEmailAddress" ELSE c

\* the canonical columns the file of table key lacked when the load began
MissingColumns(key, file) == {c \in FILES(key) : InFile(key, c) \notin file.columns}

\* C16: for every table key, loading a table whose file lacks a canonical
\* column returns a table that has the column, with the empty string in
\* every row, and the file is rewritten during that load so that it has
\* the column; for the employees table (without Standard ID or Email) as
\* for the other tables.
C16_MissingColumnAddedAndWritten ==
    (pc = "loaded" /\ pre.file.exists) =>
        \A c \in MissingColumns(call.key, pre.file) :
            /\ c \in ret.df.columns
            /\ \A i \in 1..Len(ret.df.rows) : ret.df.rows[i][c] = ""
            /\ ret.wrote
            /\ InFile(call.key, c) \in FileOf(call.key).columns

\* the file load_table creates for table key
HeaderOnly(key) == CsvFile({InFile(key, c) : c \in FILES(key)}, <<>>)

\* a step in which load_table(key) is called and returns
LoadStep(key) == pc' \in {"loaded", "reloaded"} /\ pc' # pc /\ call'.key = key

\* C17: loading a table whose file is absent creates the file with the
\* canonical header row alone and returns zero rows; every later load of
\* that table, the file unchanged, returns zero rows and writes nothing.
C17_AbsentFileCreatedOnce ==
    [][\A key \in TableKeys :
          /\ (LoadStep(key) /\ ~FileOf(key).exists) =>
                /\ FileOf(key)' = HeaderOnly(key)
                /\ ret'.df.rows = <<>>
                /\ ret'.wrote
          /\ (LoadStep(key) /\ FileOf(key) = HeaderOnly(key)) =>
                /\ FileOf(key)' = HeaderOnly(key)
                /\ ret'.df.rows = <<>>
                /\ ~ret'.wrote]_vars

\* A created file has been loaded again from disk, the cache being empty.
C17_Witness ==
    /\ LoadRan
    /\ pre.file = HeaderOnly(call.key)
    /\ cache = [NoCache EXCEPT ![call.key] = <<ret.df>>]
    /\ FileOf(call.key) = HeaderOnly(call.key)
    /\ ~ret.wrote

\* C18: for any table file, load, save of the loaded table, load again
\* returns the rows and cell values the first load returned.
C18_LoadSaveLoad ==
    pc = "reloaded" => ret.df = pre.first

\* A table with a row and a column of its own has been read again from the
\* file that save_table wrote.
C18_Witness ==
    /\ pc = "reloaded"
    /\ cache = [NoCache EXCEPT ![call.key] = <<ret.df>>]
    /\ ret.df.rows # <<>>
    /\ "Comment" \in pre.file.columns

\* the list-valued cells of the three tables
ListCells ==
    UNION {
        {EventList(events_csv[i], d) : i \in 1..Len(events_csv), d \in Dimensions},
        {CohortList(cohorts_csv[i], d) : i \in 1..Len(cohorts_csv), d \in Dimensions},
        {ParticipantEventList(participants_csv[i], d) :
            i \in 1..Len(participants_csv), d \in Dimensions},
        {ParticipantCohortList(participants_csv[i], d) :
            i \in 1..Len(participants_csv), d \in Dimensions} }

\* place of a string in Python's order
Place(x) == CHOOSE i \in 1..Len(StrOrder) : StrOrder[i] = x

\* the cell is a list of identifiers without the empty entry, strictly
\* ascending (so without duplicates); the empty list is the empty cell
CanonicalList(cell) ==
    /\ \A i \in 1..Len(cell) : cell[i] \in Range(StrOrder) \ {""}
    /\ \A i, j \in 1..Len(cell) : i < j => Place(cell[i]) < Place(cell[j])

\* C19: in every state the update-engine operations reach from tables
\* without memberships, each list-valued field of the events, cohorts and
\* participants tables is a comma-joined list with no duplicate entry, no
\* empty entry and its entries in ascending order, the empty list being
\* the empty string.
C19_ListFieldsCanonical ==
    \A cell \in ListCells : CanonicalList(cell)

\* Both ids are registered for event V1 and listed in their order; the
\* later of the two was there first.
C19_Witness ==
    /\ pc = "returned"
    /\ events_csv[2].Registrations = <<"E1", "u@x.com">>
    /\ pre.events[2].Registrations = <<"u@x.com">>

----------------------------------------------------------------------------
(* The pages: sections that load their tables, the table editor that saves *)
(* and clears the cache, and one update in between                         *)

\* The tables a section loads when the script runs
SectionTables(section) ==
    CASE section = "manage_participation" -> <<"participants", "employees", "events">>
      [] section = "cohorts" -> <<"cohorts", "employees">>
      [] OTHER -> <<section>>

Sections == {"manage_participation", "events", "cohorts", "employees"}

\* The cache after load_table has been called for every key of keys in
\* turn (the Events section clears the cache first)
cache_after_loads(c, section) ==
    LET keys == SectionTables(section)
        upto[i \in 0..Len(keys)] ==
            IF i = 0 THEN (IF section = "events" THEN NoCache ELSE c)
            ELSE load_table(upto[i - 1], keys[i], FileOf(keys[i])).cache
    IN  upto[Len(keys)]

\* Variant: the cache is left as it is after the save.
cache_kept(c) == c

\* load_table.clear() after save_table
cache_after_save(c) == NoCache

\* What the editor may hand back for df: the table without its last row
edited(df) == IF df = <<>> THEN {} ELSE {SubSeq(df, 1, Len(df) - 1)}

\* A section is opened or rerun: it loads its tables.
OpenSection ==
    /\ UNCHANGED installation
    /\ \E section \in Sections :
          /\ cache' = cache_after_loads(cache, section)
          /\ cache' # cache
    /\ UNCHANGED <<events_csv, cohorts_csv, participants_csv, could_not_find_csv,
                   employees_csv, clock, pc, call, ret, pre>>

\* "Save" in the table editor of a section: the table is loaded, the
\* edited table differs from it and is saved, the cache is cleared.
SaveEditedTable ==
    /\ UNCHANGED installation
    /\ \E key \in {"events", "cohorts", "employees"} :
          LET c == cache_after_loads(cache, key)
              df == load_table(c, key, FileOf(key)).df
          IN  \E df_to_save \in edited(df) :
                 /\ WriteFile(key, save_table(key, df_to_save))
                 /\ cache' = cache_after_save(c)
    /\ UNCHANGED <<could_not_find_csv, clock, pc, call, ret, pre>>

\* The updates made from the pages, here for the one id E1 with every box
\* ticked: for a target that is there, and for one that is not.
PageCalls ==
    {c \in EventCalls \cup PlainCohortCalls :
        c.keys = <<"E1">> /\ c.flags = <<"True", "True", "True">>}

\* "Update Event Status" or "Update Cohort Membership", once
UpdateFromPage == Call(PageCalls, TRUE)

NextPages == OpenSection \/ SaveEditedTable \/ UpdateFromPage

SpecPages == Init /\ [][NextPages]_vars

----------------------------------------------------------------------------
(* The pages next to another writer of the files: the cache of load_table  *)
(* lives in the process (ttl 3600 s), the CSV files on the disk            *)

\* Something other than this process rewrites a table file (a second
\* instance of the application, an editor): here, without its last row.
\* The model follows such changes up to the update.
EditedOutside ==
    /\ UNCHANGED installation
    /\ pc = "idle"
    /\ \E key \in {"events", "cohorts", "participants"} :
          /\ FileOf(key) # <<>>
          /\ WriteFile(key, SubSeq(FileOf(key), 1, Len(FileOf(key)) - 1))
    /\ UNCHANGED <<could_not_find_csv, cache, clock, pc, call, ret, pre>>

NextShared == OpenSection \/ EditedOutside \/ UpdateFromPage

SpecShared == Init /\ [][NextShared]_vars

\* C21: each update-engine operation clears the cache before it reads the
\* tables it is going to modify, so that what it merges into and writes
\* back comes from a fresh read of the files as they are on the disk,
\* never from a cached load: the call leaves what it would leave had it
\* started with an empty cache.
C21_UpdateReadsFiles ==
    pc = "returned" =>
        LET fresh == Run(NoCache, pre, call)
        IN  /\ events_csv = fresh.events
            /\ cohorts_csv = fresh.cohorts
            /\ participants_csv = fresh.participants
            /\ ret = fresh.ret


-----------------------------------------------------------------------------
(* Schema versions, backups and migrations.                                *)
(*                                                                         *)
(* Here a table file is again [exists, columns, rows], and so is the log  *)
(* file; a cell is a string. version_json is the content of the marker:   *)
(* "absent" when there is no file, "corrupt" when it is not JSON, "{}"    *)
(* when it is an object without schema_version, and otherwise the version *)
(* it records (updated_at is not kept). backups maps the timestamp of a   *)
(* backup directory, which is the second it was made in, to the files in  *)
(* it, by name.                                                            *)

\* The *.csv files of data/, by name
Disk ==
    [events |-> events_csv, cohorts |-> cohorts_csv,
     participants |-> participants_csv, employees |-> employees_csv,
     could_not_find |-> could_not_find_csv]

\* Variant: a marker that holds no version is not read as 0.0.0.
version_as_found(marker) == marker

\* get_current_schema_version()
get_current_schema_version(marker) ==
    IF marker \in {"absent", "corrupt", "{}"} THEN "0.0.0" ELSE marker

\* Variant: the version is written under a key that
\* get_current_schema_version does not read.
update_under_other_key(new_version) == "{}"

\* update_schema_version(new_version): what version.json holds afterwards
update_schema_version(new_version) == new_version

\* glob(data/*.csv): the files that are there
csv_files(disk) == [n \in {m \in DOMAIN disk : disk[m].exists} |-> disk[n]]

\* Variant: a file that is already in the directory is not copied over.
copy_missing(dir, files) ==
    [n \in DOMAIN dir \cup DOMAIN files |->
        IF n \in DOMAIN dir THEN dir[n] ELSE files[n]]

\* shutil.copy2 of every file of files into the directory dir
copy_into(dir, files) ==
    [n \in DOMAIN dir \cup DOMAIN files |->
        IF n \in DOMAIN files THEN files[n] ELSE dir[n]]

\* create_backup() at the second now: path is 0 for False, else the
\* timestamp in the name of the directory. A directory of that name that
\* is already there is written into (exist_ok=True).
create_backup(exists, disk, bk, now) ==
    IF ~exists THEN [path |-> 0, backups |-> bk]
    ELSE LET dir == IF now \in DOMAIN bk THEN bk[now] ELSE <<>>
         IN  [path |-> now,
              backups |-> [t \in DOMAIN bk \cup {now} |->
                              IF t = now THEN copy_into(dir, csv_files(disk))
                              ELSE bk[t]]]

\* The keys of the migrations dictionary of run_migrations
migrations ==
    {<<"0.0.0", "1.0.0">>, <<"1.0.0", "1.1.0">>, <<"1.1.0", "1.2.0">>,
     <<"1.2.0", "1.2.1">>, <<"1.2.1", "1.2.2">>, <<"1.2.2", "1.2.3">>}

\* Variant: the key is that of the registered step that starts at the
\* recorded version, whatever version it leads to.
migration_key_of_next_step(from_version, to_version) ==
    IF \E k \in migrations : k[1] = from_version
    THEN CHOOSE k \in migrations : k[1] = from_version
    ELSE <<from_version, to_version>>

\* f"{from_version}->{to_version}"
migration_key(from_version, to_version) == <<from_version, to_version>>

\* pandas type inference on a cell, as it is written back: a number loses
\* its leading zero, a missing-value word becomes the empty field
inferred(v) == CASE v = "01" -> "1" [] v = "NA" -> "" [] OTHER -> v

\* pd.read_csv(path): types are inferred
read_csv_inferred(file) ==
    [columns |-> file.columns,
     rows |-> [i \in 1..Len(file.rows) |->
                 [c \in file.columns |-> inferred(file.rows[i][c])]]]

\* pd.read_csv(path, dtype=str, na_filter=False).fillna("")
read_csv_str(file) == [columns |-> file.columns, rows |-> file.rows]

\* df.to_csv(path, index=False)
written(df) == CsvFile(df.columns, df.rows)

\* df[col] = value
add_column(df, col, value) ==
    [columns |-> df.columns \cup {col},
     rows |-> [i \in 1..Len(df.rows) |->
                 [c \in df.columns \cup {col} |->
                     IF c = col THEN value ELSE df.rows[i][c]]]]

\* df.drop(columns=[col])
drop(df, col) == select_columns(df, df.columns \ {col})

\* df.rename(columns={from: to}) when df has a column to already: the
\* frame has two columns of that name, and the file written from it is
\* read back with the second one called to.1 (here: the renamed one)
rename_beside(df, from, to, to_1) ==
    IF to \in df.columns THEN rename(df, from, to_1) ELSE rename(df, from, to)

\* Variant: of an old and a new column that are both there, the new one
\* is dropped.
drop_new(old, new) == new

\* Of an old and a new column that are both there, the one that is dropped
dropped_when_both(old, new) == old

\* "if old in df.columns: rename it to new, or drop it when new is there"
renamed_or_dropped(df, old, new) ==
    IF old \notin df.columns THEN df
    ELSE IF new \notin df.columns THEN rename(df, old, new)
    ELSE drop(df, dropped_when_both(old, new))

\* "if col not in df.columns: df[col] = value"
with_column(df, col, value) ==
    IF col \notin df.columns THEN add_column(df, col, value) ELSE df

\* "if col in df.columns: df = df.drop(columns=[col])"
without_column(df, col) == IF col \in df.columns THEN drop(df, col) ELSE df

\* "if changes_made: df.to_csv(path)": the file after a step that read
\* df from it and ended with df_new
saved_if_changed(file, df, df_new) == IF df_new # df THEN written(df_new) ELSE file

\* migrate_from_0_to_1()
migrate_from_0_to_1(disk) ==
    LET p0 == disk.participants
        p1 == IF p0.exists /\ "LastUpdated" \notin p0.columns
              THEN written(add_column(read_csv_inferred(p0), "LastUpdated", ""))
              ELSE p0
        p2 == IF p1.exists /\ "Hosted" \notin p1.columns
              THEN written(add_column(read_csv_inferred(p1), "Hosted", "No"))
              ELSE p1
        e0 == disk.events
        e1 == IF e0.exists /\ "Hosted" \notin e0.columns
              THEN written(add_column(read_csv_inferred(e0), "Hosted", ""))
              ELSE e0
    IN  [disk EXCEPT !.participants = p2, !.events = e1]

\* migrate_from_1_0_0_to_1_1_0()
migrate_from_1_0_0_to_1_1_0(disk) ==
    LET c0 == disk.cohorts
        df == read_csv_inferred(c0)
        df1 == renamed_or_dropped(df, "Nominees", "Nominated")
        df2 == renamed_or_dropped(df1, "Participants", "Joined")
        df3 == with_column(df2, "Invited", "")
    IN  IF c0.exists
        THEN [disk EXCEPT !.cohorts = saved_if_changed(c0, df, df3)]
        ELSE disk

\* migrate_from_1_2_0_to_1_2_1()
migrate_from_1_2_0_to_1_2_1(disk) ==
    LET e0 == disk.events
        e1 == IF e0.exists /\ "Waitlisted" \in e0.columns
              THEN written(drop(read_csv_str(e0), "Waitlisted"))
              ELSE e0
        p0 == disk.participants
        df == read_csv_str(p0)
        df1 == without_column(df, "EventsWaitlisted")
        df2 == with_column(df1, "OnGeneralWaitlist", "No")
        p1 == IF p0.exists THEN saved_if_changed(p0, df, df2) ELSE p0
    IN  [disk EXCEPT !.events = e1, !.participants = p1]

\* migrate_from_1_2_1_to_1_2_2()
migrate_from_1_2_1_to_1_2_2(disk) ==
    LET p0 == disk.participants
        df == read_csv_str(p0)
    IN  IF p0.exists
        THEN [disk EXCEPT !.participants =
                              saved_if_changed(p0, df, with_column(df, "Tags", ""))]
        ELSE disk

\* migrate_from_1_2_2_to_1_2_3()
migrate_from_1_2_2_to_1_2_3(disk) ==
    LET p0 == disk.participants
        df == read_csv_str(p0)
        df1 == IF "NominationNotes" \in df.columns
               THEN rename_beside(df, "NominationNotes", "Notes", "Notes.1")
               ELSE df
        df2 == with_column(df1, "Notes", "")
        df3 == without_column(df2, "CohortMembershipDetails")
    IN  IF p0.exists
        THEN [disk EXCEPT !.participants = saved_if_changed(p0, df, df3)]
        ELSE disk

\* A file of no bytes: pd.read_csv raises EmptyDataError on it
EmptyFile == CsvFile({}, <<>>)

\* Whether the step of key raises on disk: it does when it reads a file
\* of no bytes outside an inner try
raises(key, disk) ==
    CASE key = <<"0.0.0", "1.0.0">> ->
           disk.participants = EmptyFile \/ disk.events = EmptyFile
      [] key = <<"1.0.0", "1.1.0">> -> disk.cohorts = EmptyFile
      [] OTHER -> disk.participants = EmptyFile

\* migrations[migration_key]() when it returns. The step to 1.2.0 is not
\* a column step and is left as it is found: with the target 1.2.3 it is
\* never the step of a start-up.
run_step(key, disk) ==
    CASE key = <<"0.0.0", "1.0.0">> -> migrate_from_0_to_1(disk)
      [] key = <<"1.0.0", "1.1.0">> -> migrate_from_1_0_0_to_1_1_0(disk)
      [] key = <<"1.2.0", "1.2.1">> -> migrate_from_1_2_0_to_1_2_1(disk)
      [] key = <<"1.2.1", "1.2.2">> -> migrate_from_1_2_1_to_1_2_2(disk)
      [] key = <<"1.2.2", "1.2.3">> -> migrate_from_1_2_2_to_1_2_3(disk)
      [] OTHER -> disk

-----------------------------------------------------------------------------
(* Start-up: lines 978-987 of the script, which every run of it executes.  *)
(* pc follows the run: "stopped" before it, "versioned" once the marker is *)
(* read and differs from the target, "backed_up" and "transformed" inside  *)
(* run_migrations, "ready" after the block. call holds what the run has    *)
(* done so far, pre the files and the marker it found, the step the run    *)
(* before it has failed in and whether there was a run before it, ret the  *)
(* result of run_migrations.                                               *)

\* A participants file of schema 1.2.2, one of the current schema, and one
\* that has both the old and the new notes column
Participants122 ==
    CsvFile({"StandardID", "NominationNotes", "CohortMembershipDetails"},
            <<[StandardID |-> "E1", NominationNotes |-> "n1",
               CohortMembershipDetails |-> "d1"]>>)

Participants123 ==
    CsvFile({"StandardID", "Notes"}, <<[StandardID |-> "E1", Notes |-> "n2"]>>)

ParticipantsBoth ==
    CsvFile({"StandardID", "NominationNotes", "Notes"},
            <<[StandardID |-> "E1", NominationNotes |-> "n1", Notes |-> "n2"]>>)

\* An events file and a log file with a row each
EventsFile == CsvFile({"EventID", "Hosted"}, <<[EventID |-> "V1", Hosted |-> ""]>>)

LogFile == CsvFile({"Identifier"}, <<[Identifier |-> "E9"]>>)

\* What version.json may hold when the application starts
Markers ==
    {"absent", "corrupt", "{}", "0.0.0", "1.0.0", "1.1.0", "1.2.0", "1.2.1", "1.2.2",
     "1.2.3", "0.9.0"}

NoStartup ==
    [op |-> "none", current |-> "", key |-> <<>>, backed_up |-> FALSE,
     outcome |-> "none", warned |-> FALSE]

\* A fresh checkout without data/, or a data directory with some files;
\* any marker; no backup yet.
InitStartup ==
    /\ \/ /\ data_dir = FALSE
          /\ events_csv = AbsentFile
          /\ participants_csv = AbsentFile
          /\ could_not_find_csv = AbsentFile
       \/ /\ data_dir = TRUE
          /\ events_csv = EventsFile
          /\ participants_csv \in {AbsentFile, EmptyFile, Participants122,
                                   Participants123, ParticipantsBoth}
          /\ could_not_find_csv \in {AbsentFile, LogFile}
    /\ cohorts_csv = AbsentFile
    /\ employees_csv = AbsentFile
    /\ version_json \in Markers
    /\ backups = NoBackups
    /\ cache = NoCache
    /\ clock = 1
    /\ pc = "stopped"
    /\ call = NoStartup
    /\ ret = "None"
    /\ pre = [disk |-> Disk, marker |-> version_json, failed |-> <<>>,
              again |-> FALSE]

\* The data files stay as they are
DiskUnchanged ==
    UNCHANGED <<events_csv, cohorts_csv, participants_csv, could_not_find_csv,
                employees_csv>>

\* The data files become those of disk
WriteDisk(disk) ==
    /\ events_csv' = disk.events
    /\ cohorts_csv' = disk.cohorts
    /\ participants_csv' = disk.participants
    /\ employees_csv' = disk.employees
    /\ could_not_find_csv' = disk.could_not_find

\* ensure_data_dir(), get_current_schema_version() and the comparison with
\* APP_VERSION
StartupBegin ==
    /\ pc = "stopped"
    /\ data_dir' = TRUE
    /\ LET current == get_current_schema_version(version_json)
       IN  /\ call' = [NoStartup EXCEPT !.op = "startup", !.current = current,
                                        !.key = migration_key(current, APP_VERSION)]
           /\ pc' = IF current # APP_VERSION THEN "versioned" ELSE "ready"
    /\ pre' = [disk |-> Disk, marker |-> version_json,
               failed |-> IF ret = "raised" THEN call.key ELSE <<>>,
               again |-> (call.op = "startup")]
    /\ ret' = "None"
    /\ DiskUnchanged
    /\ UNCHANGED <<cache, clock, version_json, backups>>

\* run_migrations, a step is registered: create_backup()
StartupBackup ==
    /\ pc = "versioned"
    /\ call.key \in migrations
    /\ \E now \in {clock, clock + 1} :
          /\ now <= MaxClock
          /\ clock' = now
          /\ backups' = create_backup(data_dir, Disk, backups, now).backups
    /\ call' = [call EXCEPT !.backed_up = TRUE]
    /\ pc' = "backed_up"
    /\ DiskUnchanged
    /\ UNCHANGED <<cache, ret, pre, version_json, data_dir>>

\* Variant: the exception of a step is caught and the run goes on.
exception_swallowed == "transformed"

\* Where the run is after a step has raised: nothing catches the
\* exception, the script run is over
on_exception == "stopped"

\* run_migrations: migrations[migration_key]() returns or raises
StartupTransform ==
    /\ pc = "backed_up"
    /\ IF raises(call.key, Disk)
       THEN /\ pc' = on_exception
            /\ call' = [call EXCEPT !.outcome = "raised"]
            /\ ret' = "raised"
            /\ DiskUnchanged
            /\ UNCHANGED cache
       ELSE /\ pc' = "transformed"
            /\ call' = [call EXCEPT !.outcome = "returned"]
            /\ WriteDisk(run_step(call.key, Disk))
            /\ cache' = NoCache
            /\ UNCHANGED ret
    /\ UNCHANGED <<clock, pre, version_json, backups, data_dir>>

\* Variant: the marker is written as soon as the backup is made.
stamp_early == "backed_up"

\* Where run_migrations is when it calls update_schema_version for a
\* registered step
stamp_point == "transformed"

\* run_migrations: update_schema_version(to_version) after the step
StampVersion ==
    /\ pc = stamp_point
    /\ version_json' = update_schema_version(APP_VERSION)
    /\ ret' = "True"
    /\ pc' = "ready"
    /\ DiskUnchanged
    /\ UNCHANGED <<cache, clock, call, pre, backups, data_dir>>

\* Variant: the target is written whatever the recorded version is.
stamps_always(from_version) == TRUE

\* "if from_version == '0.0.0'": no step is registered and the target is
\* written all the same
stamps_without_step(from_version) == from_version = "0.0.0"

\* run_migrations, no step is registered, new installation
StampFreshInstall ==
    /\ pc = "versioned"
    /\ call.key \notin migrations
    /\ stamps_without_step(call.current)
    /\ version_json' = update_schema_version(APP_VERSION)
    /\ ret' = "True"
    /\ pc' = "ready"
    /\ DiskUnchanged
    /\ UNCHANGED <<cache, clock, call, pre, backups, data_dir>>

\* run_migrations returns False and the warning is shown
WarnNoPath ==
    /\ pc = "versioned"
    /\ call.key \notin migrations
    /\ ~stamps_without_step(call.current)
    /\ ret' = "False"
    /\ call' = [call EXCEPT !.warned = (call.current # "0.0.0")]
    /\ pc' = "ready"
    /\ DiskUnchanged
    /\ UNCHANGED <<cache, clock, pre, version_json, backups, data_dir>>

\* The script runs again, or the application is started again.
Restart ==
    /\ pc = "ready"
    /\ pc' = "stopped"
    /\ DiskUnchanged
    /\ UNCHANGED <<cache, clock, call, ret, pre, version_json, backups, data_dir>>

NextStartup ==
    \/ StartupBegin \/ StartupBackup \/ StartupTransform \/ StampVersion
    \/ StampFreshInstall \/ WarnNoPath \/ Restart

SpecStartup == InitStartup /\ [][NextStartup]_vars

\* A start-up run has found a recorded version other than the target
Outdated == call.op = "startup" /\ call.current # APP_VERSION

\* Some backup directory holds every file of disk with the content it has
\* in disk
BackedUp(disk) ==
    \E t \in DOMAIN backups :
        \A n \in DOMAIN csv_files(disk) :
            n \in DOMAIN backups[t] /\ backups[t][n] = disk[n]

\* C22: whenever the recorded schema version differs from the target, the
\* start-up takes a full backup of the files it found before a transform
\* has run and before the marker is rewritten, and so before the block is
\* left: also on a fresh install (0.0.0) and with a version for which no
\* step is registered.
C22_BackupBeforeAnyChange ==
    (Outdated /\ (pc \in {"transformed", "ready"} \/ version_json # pre.marker))
        => (call.backed_up /\ BackedUp(pre.disk))

\* C23: when the transform raises, the marker keeps the value the run
\* found and a backup of the files the run found exists; the next
\* start-up selects the same step again and takes a backup of the files
\* first.
C23_FailedStepRetried ==
    /\ [](call.outcome = "raised" =>
             (version_json = pre.marker /\ call.backed_up /\ BackedUp(pre.disk)))
    /\ [][(pc = "versioned" /\ pre.failed # <<>>) =>
             (call.key = pre.failed /\ pc' = "backed_up" /\ BackedUp(Disk)')]_vars

\* the step 1.2.2 -> 1.2.3 has raised, and the run after it has made its
\* backup and is about to try the step again
C23_Witness ==
    /\ pc = "backed_up"
    /\ pre.failed = <<"1.2.2", "1.2.3">>
    /\ version_json = "1.2.2"
    /\ backups # NoBackups

\* C24: when a step is registered for (recorded, target), the start-up
\* runs that step and writes the target into the marker only after the
\* step has returned normally: the block is left with the transformed
\* files and the target version, and no step of the run changes the marker
\* before the transform has returned.
C24_MarkerAfterTransform ==
    /\ []((Outdated /\ call.key \in migrations /\ pc = "ready") =>
             /\ call.outcome = "returned"
             /\ version_json = APP_VERSION
             /\ Disk = run_step(call.key, pre.disk))
    /\ [][(call.key \in migrations /\ version_json' # version_json) =>
             (call.outcome = "returned" /\ version_json' = APP_VERSION)]_vars

\* the step 1.2.2 -> 1.2.3 has changed participants.csv and the marker
\* records 1.2.3
C24_Witness ==
    /\ pc = "ready"
    /\ call.key = <<"1.2.2", "1.2.3">>
    /\ pre.disk.participants = Participants122
    /\ participants_csv.columns = {"StandardID", "Notes"}
    /\ version_json = APP_VERSION

\* C25: when the marker is absent, unparseable, without the version field
\* or records 0.0.0, and no step is registered for 0.0.0 -> target, the
\* start-up writes the target into the marker, runs no transform and
\* leaves every table file as it found it.
C25_FreshInstallStamped ==
    (/\ call.op = "startup"
     /\ pc = "ready"
     /\ pre.marker \in {"absent", "corrupt", "{}", "0.0.0"}
     /\ migration_key("0.0.0", APP_VERSION) \notin migrations)
        => (/\ version_json = APP_VERSION
            /\ call.outcome = "none"
            /\ Disk = pre.disk)

\* an unparseable marker beside a participants file of an older schema:
\* the marker now records the target and the file is as it was
C25_Witness ==
    /\ pc = "ready"
    /\ pre.marker = "corrupt"
    /\ version_json = APP_VERSION
    /\ participants_csv = Participants122

\* C26: when the recorded version is neither the target nor 0.0.0 and no
\* step is registered for it, the start-up runs no transform, leaves the
\* marker and every table file as it found them, shows the warning and
\* goes on; every later start-up does the same.
C26_NoPathWarned ==
    (/\ Outdated
     /\ pc = "ready"
     /\ call.current # "0.0.0"
     /\ call.key \notin migrations)
        => (/\ call.outcome = "none"
            /\ ret = "False"
            /\ call.warned
            /\ version_json = pre.marker
            /\ Disk = pre.disk)

\* a second start-up with the recorded version 1.2.1 has warned
C26_Witness ==
    /\ pc = "ready"
    /\ pre.again
    /\ call.warned
    /\ version_json = "1.2.1"

-----------------------------------------------------------------------------
(* The column steps on their own: a step is run on files of any shape it   *)
(* may meet, and then once more.                                           *)

\* The steps that add, rename or drop columns
ColumnSteps ==
    {<<"0.0.0", "1.0.0">>, <<"1.0.0", "1.1.0">>, <<"1.2.0", "1.2.1">>,
     <<"1.2.1", "1.2.2">>, <<"1.2.2", "1.2.3">>}

\* The columns a step looks for, per file
StepColumns(key) ==
    CASE key = <<"0.0.0", "1.0.0">> ->
           [participants |-> {"LastUpdated", "Hosted"}, events |-> {"Hosted"},
            cohorts |-> {}]
      [] key = <<"1.0.0", "1.1.0">> ->
           [participants |-> {}, events |-> {},
            cohorts |-> {"Nominees", "Nominated", "Participants", "Joined", "Invited"}]
      [] key = <<"1.2.0", "1.2.1">> ->
           [participants |-> {"EventsWaitlisted", "OnGeneralWaitlist"},
            events |-> {"Waitlisted"}, cohorts |-> {}]
      [] key = <<"1.2.1", "1.2.2">> ->
           [participants |-> {"Tags"}, events |-> {}, cohorts |-> {}]
      [] OTHER ->
           [participants |-> {"NominationNotes", "Notes", "CohortMembershipDetails"},
            events |-> {}, cohorts |-> {}]

\* A file with the column Key and the columns cols, with one row or none:
\* the key cell is a number with a leading zero, every other cell holds
\* the name of its column
LegacyFile(cols, n) ==
    CsvFile(cols \cup {"Key"},
            [i \in 1..n |-> [c \in cols \cup {"Key"} |-> IF c = "Key" THEN "01" ELSE c]])

\* The files a step may find where it looks for the columns cols: none,
\* one of no bytes, or one with any of these columns, with and without a
\* row. A file the step does not look at is not there.
LegacyFiles(cols) ==
    IF cols = {} THEN {AbsentFile}
    ELSE {AbsentFile, EmptyFile}
           \cup {LegacyFile(s, n) : s \in SUBSET cols, n \in {0, 1}}

InitMigrate ==
    /\ \E key \in ColumnSteps :
          /\ call = [op |-> "migrate", key |-> key]
          /\ participants_csv \in LegacyFiles(StepColumns(key).participants)
          /\ events_csv \in LegacyFiles(StepColumns(key).events)
          /\ cohorts_csv \in LegacyFiles(StepColumns(key).cohorts)
    /\ employees_csv = AbsentFile
    /\ could_not_find_csv = AbsentFile
    /\ version_json = call.key[1]
    /\ backups = NoBackups
    /\ data_dir = TRUE
    /\ cache = NoCache
    /\ clock = 1
    /\ pc = "idle"
    /\ ret = "None"
    /\ pre = [disk |-> Disk, once |-> Disk]

\* The step of the call is run: it returns, or it raises
RunStep ==
    /\ pc = "idle"
    /\ pc' = "once"
    /\ IF raises(call.key, Disk)
       THEN DiskUnchanged /\ ret' = "raised"
       ELSE WriteDisk(run_step(call.key, Disk)) /\ ret' = "returned"
    /\ UNCHANGED <<cache, clock, call, pre>>
    /\ UNCHANGED installation

\* The same step is run once more on what the first run has left
RunStepAgain ==
    /\ pc = "once"
    /\ pc' = "twice"
    /\ pre' = [pre EXCEPT !.once = Disk]
    /\ IF raises(call.key, Disk)
       THEN DiskUnchanged /\ ret' = "raised"
       ELSE WriteDisk(run_step(call.key, Disk)) /\ ret' = "returned"
    /\ UNCHANGED <<cache, clock, call>>
    /\ UNCHANGED installation

NextMigrate == RunStep \/ RunStepAgain

SpecMigrate == InitMigrate /\ [][NextMigrate]_vars

-----------------------------------------------------------------------------
(* The backup manager on its own: create_backup() and the restore of the   *)
(* System panel, on any data directory and with a backup to choose.        *)

\* An events file other than EventsFile
EventsFileOld ==
    CsvFile({"EventID", "Hosted"}, <<[EventID |-> "V0", Hosted |-> "E1"]>>)

\* The data directories create_backup may find
BackupDisks ==
    {[events |-> e, cohorts |-> AbsentFile, participants |-> p,
      employees |-> AbsentFile, could_not_find |-> l] :
        e \in {AbsentFile, EventsFile, EventsFileOld},
        p \in {AbsentFile, Participants123},
        l \in {AbsentFile, LogFile}}

\* backups/ before the call: empty, or with backup_1 made of one of these
\* data directories
BackupSets ==
    {NoBackups} \cup
    {[t \in {1} |-> csv_files(d)] :
        d \in {b \in BackupDisks :
                 \/ b.events = EventsFileOld /\ b.could_not_find = AbsentFile
                 \/ b.events = AbsentFile /\ b.participants = AbsentFile}}

NoBackupCall == [op |-> "none", chosen |-> 0, now |-> 0]

InitBackup ==
    /\ data_dir \in BOOLEAN
    /\ \E d \in BackupDisks :
          /\ data_dir \/ csv_files(d) = <<>>
          /\ events_csv = d.events
          /\ cohorts_csv = d.cohorts
          /\ participants_csv = d.participants
          /\ employees_csv = d.employees
          /\ could_not_find_csv = d.could_not_find
    /\ backups \in BackupSets
    /\ version_json = APP_VERSION
    /\ cache = NoCache
    /\ clock = 1
    /\ pc = "idle"
    /\ call = NoBackupCall
    /\ ret = 0
    /\ pre = [disk |-> Disk, backups |-> backups]

\* create_backup() is called and returns
CreateBackup ==
    /\ pc = "idle"
    /\ \E now \in {clock, clock + 1} :
          /\ now <= MaxClock
          /\ LET r == create_backup(data_dir, Disk, backups, now)
             IN  /\ backups' = r.backups
                 /\ ret' = r.path
          /\ call' = [op |-> "backup", chosen |-> 0, now |-> now]
          /\ clock' = now
    /\ pc' = "returned"
    /\ pre' = [disk |-> Disk, backups |-> backups]
    /\ DiskUnchanged
    /\ UNCHANGED <<cache, version_json, data_dir>>

\* Variant: the data directory is made equal to the chosen backup; a file
\* that the backup does not hold is removed.
restore_mirrored(exists, disk, bk, chosen, now) ==
    LET saved == create_backup(exists, disk, bk, now).backups
        dir == saved[chosen]
    IN  [disk |-> [n \in DOMAIN disk |->
                      IF n \in DOMAIN dir THEN dir[n] ELSE AbsentFile],
         backups |-> saved]

\* Variant: the chosen backup is copied over the data files and no backup
\* of them is made first.
restore_unsaved(exists, disk, bk, chosen, now) ==
    [disk |-> [n \in DOMAIN disk |->
                  IF n \in DOMAIN bk[chosen] THEN bk[chosen][n] ELSE disk[n]],
     backups |-> bk]

\* The body under "Confirm Restore": create_backup(), then every *.csv of
\* the chosen backup directory is copied over the file of its name in
\* data/
restore(exists, disk, bk, chosen, now) ==
    LET saved == create_backup(exists, disk, bk, now).backups
        dir == saved[chosen]
    IN  [disk |-> [n \in DOMAIN disk |->
                      IF n \in DOMAIN dir THEN dir[n] ELSE disk[n]],
         backups |-> saved]

\* A backup is chosen in the System panel and restored. The script has
\* run ensure_data_dir() before it comes to the panel.
RestoreBackup ==
    /\ pc = "idle"
    /\ data_dir
    /\ \E chosen \in DOMAIN backups, now \in {clock, clock + 1} :
          /\ now <= MaxClock
          /\ LET r == restore(data_dir, Disk, backups, chosen, now)
             IN  /\ WriteDisk(r.disk)
                 /\ backups' = r.backups
          /\ call' = [op |-> "restore", chosen |-> chosen, now |-> now]
          /\ clock' = now
          /\ ret' = now
    /\ cache' = NoCache
    /\ pc' = "returned"
    /\ pre' = [disk |-> Disk, backups |-> backups]
    /\ UNCHANGED <<version_json, data_dir>>

\* The panel is used again.
BackToPanel ==
    /\ pc = "returned"
    /\ pc' = "idle"
    /\ DiskUnchanged
    /\ UNCHANGED <<cache, clock, call, ret, pre>>
    /\ UNCHANGED installation

NextBackup == CreateBackup \/ RestoreBackup \/ BackToPanel

SpecBackup == InitBackup /\ [][NextBackup]_vars

\* C28: create_backup() returns False and creates nothing when the data
\* directory does not exist; otherwise it creates the directory
\* backup_<timestamp> under the backups root, with a copy of every *.csv
\* file of the data directory (the table files among them) whose content
\* equals the original, returns its path, and leaves the data directory
\* as it was.
C28_BackupCopiesEveryFile ==
    (pc = "returned" /\ call.op = "backup") =>
        /\ Disk = pre.disk
        /\ IF ~data_dir
           THEN ret = 0 /\ backups = pre.backups
           ELSE /\ ret = call.now
                /\ ret \in DOMAIN backups
                /\ \A n \in DOMAIN csv_files(Disk) :
                      n \in DOMAIN backups[ret] /\ backups[ret][n] = Disk[n]
                /\ \A t \in DOMAIN pre.backups \ {ret} :
                      t \in DOMAIN backups /\ backups[t] = pre.backups[t]

\* a backup made in a second in which there was none: it holds the three
\* files of the data directory
C28_Witness ==
    /\ pc = "returned"
    /\ call.op = "backup"
    /\ data_dir
    /\ ret \notin DOMAIN pre.backups
    /\ DOMAIN backups[ret] = {"events", "participants", "could_not_find"}

\* C29: a restore takes a backup of the current files first and only then
\* overwrites them: afterwards every file of the chosen backup has in the
\* data directory the content it has in that backup (which is the content
\* it had there when the backup was chosen, unless the chosen backup is of
\* this very second), and every file the data directory had before the
\* restore is in the safety backup with the content it had.
C29_RestoreKeepsSafetyCopy ==
    (pc = "returned" /\ call.op = "restore") =>
        /\ \A n \in DOMAIN backups[call.chosen] :
              Disk[n].exists /\ Disk[n] = backups[call.chosen][n]
        /\ call.chosen # call.now => backups[call.chosen] = pre.backups[call.chosen]
        /\ call.now \in DOMAIN backups
        /\ \A n \in DOMAIN csv_files(pre.disk) :
              n \in DOMAIN backups[call.now] /\ backups[call.now][n] = pre.disk[n]

\* backup_1 with the older events file has been restored in second 2 over
\* a newer events file, which is now in backup_2
C29_Witness ==
    /\ pc = "returned"
    /\ call.op = "restore"
    /\ call.chosen = 1
    /\ call.now = 2
    /\ pre.disk.events = EventsFile
    /\ events_csv = EventsFileOld
    /\ backups[2].events = EventsFile

-----------------------------------------------------------------------------
(* An update that is interrupted between its two writes, and run again.    *)
(* The files are again sequences of rows.                                  *)

\* Whether the call a on the files f comes to its save_table calls: it
\* has a target and ids (and, for a cohort, a flag), and the target has a
\* row
reaches_save(f, a) ==
    /\ a.target # ""
    /\ a.keys # <<>>
    /\ IF a.op = "event"
       THEN event_idx(f.events, a.target) # 0
       ELSE action_taken_for_cohort(a) /\ cohort_idx(f.cohorts, a.target) # 0

\* The cache when the first save_table is called: the event update has
\* cleared it after its loads, the cohort update has not
cache_at_save(c, f, a) ==
    IF a.op = "event" THEN NoCache
    ELSE LET l1 == load_table(c, "cohorts", f.cohorts)
             l2 == load_table(l1.cache, "participants", f.participants)
         IN  load_table(l2.cache, "employees", f.employees).cache

\* A call writes its own table (events.csv or cohorts.csv) and goes no
\* further: participants.csv is not written and the cache is not cleared.
\* The log rows of the call are written by then. The process may or may
\* not outlive the interruption, and with it the cache.
Interrupted ==
    /\ pc = "idle"
    /\ \E c \in EventCalls \cup CohortCalls :
       \E now \in {clock, clock + 1}, absent \in AbsentSets(c.keys, employees_csv) :
          LET a == Args(c, absent, now)
              r == Run(cache, Files, a)
          IN  /\ now <= MaxClock
              /\ reaches_save(Files, a)
              /\ events_csv' = r.events
              /\ cohorts_csv' = r.cohorts
              /\ could_not_find_csv' = r.log
              /\ cache' \in {NoCache, cache_at_save(cache, Files, a)}
              /\ clock' = now
              /\ call' = a
    /\ pc' = "interrupted"
    /\ pre' = Files
    /\ UNCHANGED <<participants_csv, employees_csv, ret>>
    /\ UNCHANGED installation

\* The interrupted call is made again with the same arguments and returns.
RunAgain ==
    /\ pc = "interrupted"
    /\ \E now \in {clock, clock + 1} :
          LET a == [call EXCEPT !.now = now, !.again = TRUE]
              r == Run(cache, Files, a)
          IN  /\ now <= MaxClock
              /\ events_csv' = r.events
              /\ cohorts_csv' = r.cohorts
              /\ participants_csv' = r.participants
              /\ could_not_find_csv' = r.log
              /\ cache' = r.cache
              /\ clock' = now
              /\ call' = a
              /\ ret' = r.ret
    /\ pc' = "returned"
    /\ UNCHANGED <<employees_csv, pre>>
    /\ UNCHANGED installation

NextCrash == Interrupted \/ RunAgain

SpecCrash == Init /\ [][NextCrash]_vars

\* C30: when an update is interrupted after it has written its own table
\* and before it has written participants.csv, running it again with the
\* same arguments to the end leaves events.csv, cohorts.csv and
\* participants.csv as one uninterrupted run, made on the files the
\* interrupted run found at the time of the second run, leaves them.
C30_RerunCompletesInterruptedUpdate ==
    (pc = "returned" /\ call.again) =>
        LET one == Run(NoCache, pre, call)
        IN  /\ events_csv = one.events
            /\ cohorts_csv = one.cohorts
            /\ participants_csv = one.participants

\* E1 was being nominated to C1 when the call was interrupted; C1 had E1
\* and the participants table had not; after the second run both have
C30_Witness ==
    /\ pc = "returned"
    /\ call.again
    /\ call.op = "cohort"
    /\ call.action_type = "add"
    /\ call.keys = <<"E1">>
    /\ call.flags[1] = "True"
    /\ \E i \in 1..Len(cohorts_csv) :
          cohorts_csv[i].Name = "C1" /\ "E1" \in Range(cohorts_csv[i].Nominated)
    /\ \A i \in 1..Len(pre.participants) : pre.participants[i].StandardID # "E1"
    /\ \E i \in 1..Len(participants_csv) :
          /\ participants_csv[i].StandardID = "E1"
          /\ participants_csv[i].CohortsNominated = <<"C1">>

\* The renames of the column steps: the step, the file, the old and the
\* new name of the column
Renames ==
    {<< <<"1.0.0", "1.1.0">>, "cohorts", "Nominees", "Nominated" >>,
     << <<"1.0.0", "1.1.0">>, "cohorts", "Participants", "Joined" >>,
     << <<"1.2.2", "1.2.3">>, "participants", "NominationNotes", "Notes" >>}

\* C31: a step that renames a column, run on a file that has both the old
\* and the new column, keeps the values of the new column, drops the old
\* column and leaves exactly one column of the new name: for Nominees ->
\* Nominated and Participants -> Joined in cohorts and for Nomination
\* Notes -> Notes in participants.
C31_RenameKeepsNewColumn ==
    \A r \in Renames :
        LET before == pre.disk[r[2]]
            after == Disk[r[2]]
        IN  (/\ pc = "once"
             /\ call.key = r[1]
             /\ {r[3], r[4]} \subseteq before.columns)
                => (/\ r[3] \notin after.columns
                    /\ r[4] \in after.columns
                    /\ "Notes.1" \notin after.columns
                    /\ Len(after.rows) = Len(before.rows)
                    /\ \A i \in 1..Len(after.rows) :
                          after.rows[i][r[4]] = before.rows[i][r[4]])

-----------------------------------------------------------------------------
(* The restructure 1.1.0 -> 1.2.0 on its own. The files are sequences of   *)
(* rows and a list cell is the sequence of its entries; a participants     *)
(* file of the old format has one row per (employee, event) with the       *)
(* columns Registered, Participated and Hosted holding yes or no.          *)

\* str(x).lower()
lower(s) == IF s = "Yes" THEN "yes" ELSE s

\* 'if "Event ID" in columns and "Registered" in columns'
old_format(file) ==
    file # <<>> /\ {"EventID", "Registered"} \subseteq DOMAIN file[1]

\* The events an old-format participants file marks for emp_id in the
\* column col
old_marks(emp_id, file, col) ==
    IF old_format(file)
    THEN {file[i].EventID : i \in {j \in 1..Len(file) :
                                     /\ file[j].StandardID = emp_id
                                     /\ lower(file[j][col]) = "yes"}}
    ELSE {}

\* Variant: whatever the column asked for, the Registrations are read.
listed_in_registrations(emp_id, rows, id_col, col) ==
    {rows[i][id_col] : i \in {j \in 1..Len(rows) :
                                emp_id # "" /\ emp_id \in Range(rows[j].Registrations)}}

\* The events (cohorts) whose list in the column col names emp_id
listed_in(emp_id, rows, id_col, col) ==
    {rows[i][id_col] : i \in {j \in 1..Len(rows) :
                                emp_id # "" /\ emp_id \in Range(rows[j][col])}}

\* The row of the new participants table for the employee row i
restructured_row(employees_df, i, f, now) ==
    LET emp_id == employees_df[i].StandardID
        first == \A j \in 1..(i - 1) : employees_df[j].StandardID # emp_id
        events(col, old_col) ==
            IF first
            THEN JoinSorted(old_marks(emp_id, f.participants, old_col)
                              \cup listed_in(emp_id, f.events, "EventID", col))
            ELSE <<>>
        cohorts(col) ==
            IF first THEN JoinSorted(listed_in(emp_id, f.cohorts, "Name", col))
            ELSE <<>>
    IN  [BlankParticipantRow EXCEPT
            !.StandardID = emp_id,
            !.Email = employees_df[i].Email,
            !.EventsRegistered = events("Registrations", "Registered"),
            !.EventsParticipated = events("Participants", "Participated"),
            !.EventsHosted = events("Hosted", "Hosted"),
            !.CohortsNominated = cohorts("Nominated"),
            !.CohortsInvited = cohorts("Invited"),
            !.CohortsJoined = cohorts("Joined"),
            !.LastUpdated = now]

\* migrate_from_1_1_0_to_1_2_0(): the participants file it leaves
migrate_from_1_1_0_to_1_2_0(f, now) ==
    LET employees_df == read_table("employees", f.employees)
    IN  IF employees_df = <<>>
        THEN IF f.participants # <<>> /\ ~old_format(f.participants)
             THEN f.participants
             ELSE <<>>
        ELSE [i \in 1..Len(employees_df) |-> restructured_row(employees_df, i, f, now)]

\* The files the step may find: no, one or two employees; the event V0
\* with a registration and V1 with any lists; the cohort C1 with any
\* lists, or no cohort; and a participants file that is empty, of the old
\* format, or already of the new one.
RestructureFiles ==
    {[events |-> << EventRow("V0", "soon", <<"u@x.com">>, <<>>, <<>>),
                    EventRow("V1", "2024-01-01", reg, part, host) >>,
      cohorts |-> coh,
      participants |-> par,
      log |-> <<>>,
      employees |-> emp] :
        reg \in {<<>>, <<"E1">>, <<"E1", "u@x.com">>},
        part \in {<<>>, <<"u@x.com">>},
        host \in {<<>>, <<"E1">>},
        coh \in {<<>>} \cup {<<CohortRow("C1", "", nom, <<>>, joined)>> :
                                nom \in {<<>>, <<"E1">>},
                                joined \in {<<>>, <<"u@x.com">>}},
        par \in {<<>>,
                 << [StandardID |-> "E1", EventID |-> "V0", Registered |-> "Yes",
                     Participated |-> "no", Hosted |-> "yes"] >>,
                 SeededFiles.participants},
        emp \in {<<>>,
                 << [StandardID |-> "E1", WorkEmailAddress |-> "alice@x.com"] >>,
                 << [StandardID |-> "E1", WorkEmailAddress |-> "alice@x.com"],
                    [StandardID |-> "u@x.com", WorkEmailAddress |-> "uma@x.com"] >>}}

InitRestructure ==
    /\ \E f \in RestructureFiles :
          /\ events_csv = f.events
          /\ cohorts_csv = f.cohorts
          /\ participants_csv = f.participants
          /\ could_not_find_csv = f.log
          /\ employees_csv = f.employees
    /\ version_json = "1.1.0"
    /\ backups = NoBackups
    /\ data_dir = TRUE
    /\ cache = NoCache
    /\ clock = 1
    /\ pc = "idle"
    /\ call = [op |-> "none", now |-> 0]
    /\ ret = "None"
    /\ pre = NoFiles

\* The step is run and returns
Restructure ==
    /\ pc = "idle"
    /\ \E now \in {clock, clock + 1} :
          /\ now <= MaxClock
          /\ participants_csv' = migrate_from_1_1_0_to_1_2_0(Files, now)
          /\ clock' = now
          /\ call' = [op |-> "restructure", now |-> now]
    /\ cache' = NoCache
    /\ pc' = "returned"
    /\ ret' = "returned"
    /\ pre' = Files
    /\ UNCHANGED <<events_csv, cohorts_csv, could_not_find_csv, employees_csv>>
    /\ UNCHANGED installation

SpecRestructure == InitRestructure /\ [][Restructure]_vars

\* whether the list cell names x
Names(cell, x) == x \in Range(cell)

\* C32: after the restructure has run with a non-empty employees table,
\* the participants table has one row per employee row; for every
\* employee E, event V and cohort C, V is in E's Events Registered /
\* Participated / Hosted exactly when E is in V's Registrations /
\* Participants / Hosted list of the events table or an old-format
\* participants row marks (E, V) with "yes", and C is in E's Cohorts
\* Nominated / Invited / Joined exactly when E is in C's Nominated /
\* Invited / Joined list; an employee with no activity has six empty lists.
C32_RestructureFoldsMemberships ==
    (pc = "returned" /\ pre.employees # <<>>) =>
        /\ Len(participants_csv) = Len(pre.employees)
        /\ \A i \in 1..Len(participants_csv) :
              LET row == participants_csv[i]
                  E == pre.employees[i].StandardID
                  marked(V, col) ==
                      /\ old_format(pre.participants)
                      /\ \E k \in 1..Len(pre.participants) :
                            /\ pre.participants[k].StandardID = E
                            /\ pre.participants[k].EventID = V
                            /\ pre.participants[k][col] \in {"yes", "Yes"}
              IN  /\ row.StandardID = E
                  /\ \A V \in {"V0", "V1"} :
                        LET ev == pre.events[CHOOSE k \in 1..Len(pre.events) :
                                                pre.events[k].EventID = V]
                        IN  /\ Names(row.EventsRegistered, V)
                                <=> (Names(ev.Registrations, E) \/ marked(V, "Registered"))
                            /\ Names(row.EventsParticipated, V)
                                <=> (Names(ev.Participants, E) \/ marked(V, "Participated"))
                            /\ Names(row.EventsHosted, V)
                                <=> (Names(ev.Hosted, E) \/ marked(V, "Hosted"))
                  /\ \A k \in 1..Len(pre.cohorts) :
                        LET co == pre.cohorts[k]
                        IN  /\ Names(row.CohortsNominated, co.Name) <=> Names(co.Nominated, E)
                            /\ Names(row.CohortsInvited, co.Name) <=> Names(co.Invited, E)
                            /\ Names(row.CohortsJoined, co.Name) <=> Names(co.Joined, E)
                  /\ Range(row.EventsRegistered) \cup Range(row.EventsParticipated)
                        \cup Range(row.EventsHosted) \subseteq {"V0", "V1"}
                  /\ Range(row.CohortsNominated) \cup Range(row.CohortsInvited)
                        \cup Range(row.CohortsJoined)
                        \subseteq {pre.cohorts[k].Name : k \in 1..Len(pre.cohorts)}

\* two employees: E1 is hosting V0 by an old-format row and V1 by the
\* events table, u@x.com is registered for V0 and has joined C1
C32_Witness ==
    /\ pc = "returned"
    /\ Len(participants_csv) = 2
    /\ participants_csv[1].StandardID = "E1"
    /\ participants_csv[1].EventsHosted = <<"V0", "V1">>
    /\ participants_csv[1].EventsRegistered = <<"V0">>
    /\ participants_csv[2].EventsRegistered = <<"V0">>
    /\ participants_csv[2].CohortsJoined = <<"C1">>

-----------------------------------------------------------------------------
\* The recorded versions from which no registered step leads to the target
Stranded == {"1.0.0", "1.1.0", "1.2.0", "1.2.1"}

\* C33: a start-up runs at most one transform step, and only the step
\* registered for exactly (recorded version, target): with the target
\* 1.2.3 that is the step 1.2.2 -> 1.2.3 and no other. From a recorded
\* 1.0.0, 1.1.0, 1.2.0 or 1.2.1 no start-up, however often the application
\* is started, runs a transform, changes a file or brings the marker to
\* the target.
C33_OnlyTheExactStepRuns ==
    /\ [](call.outcome # "none" =>
             /\ call.key = <<call.current, APP_VERSION>>
             /\ call.key = <<"1.2.2", "1.2.3">>)
    /\ [][(call'.outcome # call.outcome) =>
             (call.outcome = "none" \/ call'.outcome = "none")]_vars
    /\ [][(version_json \in Stranded) =>
             /\ version_json' = version_json
             /\ Disk' = Disk
             /\ backups' = backups
             /\ call'.outcome = "none"]_vars

\* the application was started twice on a data directory of version 1.2.1:
\* the second start-up has ended like the first, with the warning
C33_Witness ==
    /\ pc = "ready"
    /\ pre.again
    /\ pre.marker = "1.2.1"
    /\ version_json = "1.2.1"
    /\ call.warned
    /\ Disk = pre.disk

-----------------------------------------------------------------------------
\* C39: from a recorded version 0.0.0 (or no readable marker) or 1.2.2, a
\* start-up in which no transform raises ends with the marker equal to the
\* target; and once the marker equals the target, no start-up takes a
\* backup, runs a transform, changes a file or enters the branch that
\* writes the marker.
C39_StartupConverges ==
    /\ []((/\ pc = "ready"
           /\ call.op = "startup"
           /\ call.current \in {"0.0.0", "1.2.2"}) => version_json = APP_VERSION)
    /\ [][(version_json = APP_VERSION) =>
             /\ version_json' = APP_VERSION
             /\ backups' = backups
             /\ Disk' = Disk
             /\ pc' \in {"stopped", "ready"}
             /\ call'.outcome = call.outcome \/ call'.outcome = "none"]_vars

\* the first start-up has migrated 1.2.2 -> 1.2.3 behind a backup; the
\* second has found the target and gone straight on
C39_Witness ==
    /\ pc = "ready"
    /\ pre.again
    /\ pre.marker = APP_VERSION
    /\ call.current = APP_VERSION
    /\ call.outcome = "none"
    /\ backups # NoBackups
    /\ version_json = APP_VERSION

-----------------------------------------------------------------------------
(* Two writers. Two processes run an update each on the same files, with   *)
(* nothing between them but the files: each has its own cache (empty, the  *)
(* processes are new) and its own data frames. An update is no longer one  *)
(* step: it reads its first table, reads the other tables and computes,    *)
(* saves the owning table (events or cohorts), saves the participants      *)
(* table. pc, call and ret hold one entry per writer: where the writer is, *)
(* its arguments, and what it has read and computed. pre holds the files   *)
(* before both updates, whether a writer has read a table after the other  *)
(* had saved one, which writer saved each file last and the order in which *)
(* the updates returned.                                                   *)

Writers == {"A", "B"}

Other(w) == IF w = "A" THEN "B" ELSE "A"

\* The table an update owns, and the table it loads first
owner_table(a) == IF a.op = "event" THEN "events" ELSE "cohorts"

first_table(a) == IF a.op = "event" THEN "participants" ELSE "cohorts"

\* Variant: the participants table is saved by no update.
participants_never_saved(f, a) == FALSE

\* Whether the update saves the participants table: an event update
\* always does, a cohort update "if participants_file_updated"
participants_saved(f, a) ==
    \/ a.op = "event"
    \/ cohort_participants_loop(
           [df |-> read_table("participants", f.participants), log |-> f.log,
            updated |-> FALSE],
           1, a, read_table("employees", f.employees)).updated

\* The two updates: A adds E1 and B adds u@x.com, to the event V1 or to
\* the cohort C1, each under some flags; A runs at second 1, B at second 2.
WriterCalls ==
    {[A |-> Args(ca, {}, 1), B |-> Args(cb, {}, 2)] :
        <<ca, cb>> \in
            {<<EventCall(<<"E1">>, "V1", fa), EventCall(<<"u@x.com">>, "V1", fb)>> :
                fa \in {<<"True", "False", "False">>, <<"True", "True", "False">>},
                fb \in {<<"True", "False", "False">>, <<"False", "False", "True">>}}
            \cup
            {<<[op |-> "cohort", keys |-> <<"E1">>, target |-> "C1", flags |-> fa,
                action_type |-> "add", nominated_by |-> "", notes |-> <<>>],
               [op |-> "cohort", keys |-> <<"u@x.com">>, target |-> "C1", flags |-> fb,
                action_type |-> "add", nominated_by |-> "", notes |-> <<>>]>> :
                fa \in {<<"True", "False", "False">>, <<"True", "True", "False">>},
                fb \in {<<"True", "False", "False">>, <<"False", "False", "True">>}}}

NoWrites ==
    [files |-> NoFiles, read_after_save |-> FALSE,
     last |-> [events |-> "", cohorts |-> "", participants |-> ""],
     returned |-> <<>>]

InitWriters ==
    /\ Installed
    /\ \E f \in {FreshFiles, SeededFiles} :
          /\ events_csv = f.events
          /\ cohorts_csv = f.cohorts
          /\ participants_csv = f.participants
          /\ could_not_find_csv = f.log
          /\ employees_csv = f.employees
    /\ cache = NoCache
    /\ clock = 1
    /\ pc = [w \in Writers |-> "called"]
    /\ call \in WriterCalls
    /\ ret = [w \in Writers |-> [read |-> NoFiles, out |-> NoFiles]]
    /\ pre = [NoWrites EXCEPT !.files = Files]

\* whether the other writer has saved a table already
SavedByOther(w) == pc[Other(w)] \in {"saved_owner", "returned"}

\* load_table of the first table
LoadFirst(w) ==
    /\ pc[w] = "called"
    /\ pc' = [pc EXCEPT ![w] = "loading"]
    /\ ret' = [ret EXCEPT ![w].read =
                  [@ EXCEPT ![first_table(call[w])] = Files[first_table(call[w])]]]
    /\ pre' = [pre EXCEPT !.read_after_save = @ \/ SavedByOther(w)]
    /\ UNCHANGED <<events_csv, cohorts_csv, participants_csv, could_not_find_csv,
                   employees_csv, cache, clock, call>>
    /\ UNCHANGED installation

\* load_table of the other tables, and the computation on the data frames
LoadRest(w) ==
    /\ pc[w] = "loading"
    /\ LET t == first_table(call[w])
           read == [Files EXCEPT ![t] = ret[w].read[t]]
           r == Run(NoCache, read, call[w])
       IN  ret' = [ret EXCEPT ![w] =
                      [read |-> read,
                       out |-> [NoFiles EXCEPT !.events = r.events,
                                               !.cohorts = r.cohorts,
                                               !.participants = r.participants,
                                               !.log = r.log]]]
    /\ pc' = [pc EXCEPT ![w] = "loaded"]
    /\ pre' = [pre EXCEPT !.read_after_save = @ \/ SavedByOther(w)]
    /\ UNCHANGED <<events_csv, cohorts_csv, participants_csv, could_not_find_csv,
                   employees_csv, cache, clock, call>>
    /\ UNCHANGED installation

\* save_table("events", events_df) or save_table("cohorts", cohorts_df)
SaveOwner(w) ==
    /\ pc[w] = "loaded"
    /\ IF call[w].op = "event"
       THEN events_csv' = ret[w].out.events /\ UNCHANGED cohorts_csv
       ELSE cohorts_csv' = ret[w].out.cohorts /\ UNCHANGED events_csv
    /\ pc' = [pc EXCEPT ![w] = "saved_owner"]
    /\ pre' = [pre EXCEPT !.last[owner_table(call[w])] = w]
    /\ UNCHANGED <<participants_csv, could_not_find_csv, employees_csv, cache,
                   clock, call, ret>>
    /\ UNCHANGED installation

\* save_table("participants", participants_df), load_table.clear(), return
SaveParticipants(w) ==
    /\ pc[w] = "saved_owner"
    /\ IF participants_saved(ret[w].read, call[w])
       THEN /\ participants_csv' = ret[w].out.participants
            /\ pre' = [pre EXCEPT !.last.participants = w,
                                  !.returned = Append(@, w)]
       ELSE /\ UNCHANGED participants_csv
            /\ pre' = [pre EXCEPT !.returned = Append(@, w)]
    /\ pc' = [pc EXCEPT ![w] = "returned"]
    /\ UNCHANGED <<events_csv, cohorts_csv, could_not_find_csv, employees_csv,
                   cache, clock, call, ret>>
    /\ UNCHANGED installation

NextWriters ==
    \E w \in Writers :
        LoadFirst(w) \/ LoadRest(w) \/ SaveOwner(w) \/ SaveParticipants(w)

SpecWriters == InitWriters /\ [][NextWriters]_vars

\* Both updates have returned, and both had read every table before
\* either saved one
BothReadFirst ==
    /\ \A w \in Writers : pc[w] = "returned"
    /\ ~pre.read_after_save

\* The writer whose update returned last, and the one before it
Later == pre.returned[2]
Earlier == pre.returned[1]

\* The lists of the target row of the owning table, as a writer's call
\* names it
OwnerRowLists(f, a) ==
    IF a.op = "event"
    THEN LET row == f.events[event_idx(f.events, a.target)]
         IN  Range(row.Registrations) \cup Range(row.Participants) \cup Range(row.Hosted)
    ELSE LET row == f.cohorts[cohort_idx(f.cohorts, a.target)]
         IN  Range(row.Nominated) \cup Range(row.Invited) \cup Range(row.Joined)

\* The participants rows of the key k that name the target in a list
ParticipantNames(f, a, k) ==
    \E i \in 1..Len(f.participants) :
        LET row == f.participants[i]
        IN  /\ row.StandardID = k
            /\ a.target \in
                  (IF a.op = "event"
                   THEN Range(row.EventsRegistered) \cup Range(row.EventsParticipated)
                            \cup Range(row.EventsHosted)
                   ELSE Range(row.CohortsNominated) \cup Range(row.CohortsInvited)
                            \cup Range(row.CohortsJoined))

\* The statement as it is made: when both writers have read before either
\* has saved, the files are those the writer that returned last has
\* computed, and the key of the writer before it is in neither the owning
\* row nor the participants table.
C34_LaterWriterWinsBothFiles ==
    BothReadFirst =>
        LET a == call[Later]
        IN  /\ Files[owner_table(a)] = ret[Later].out[owner_table(a)]
            /\ participants_csv = ret[Later].out.participants
            /\ \A k \in Range(call[Earlier].keys) :
                  /\ k \notin OwnerRowLists(Files, a)
                  /\ ~ParticipantNames(Files, a, k)

\* C34: with two writers and no lock, when both updates of the same event
\* (or cohort) with different keys have read before either has saved, the
\* last writer wins file by file and nothing is merged: the owning table
\* is what the writer that saved it last has computed from the files both
\* have read, and so is the participants table. When one writer has saved
\* both files last, the other writer's keys are lost from the owning row
\* and from the participants table.
C34_LastWriterWinsPerFile ==
    BothReadFirst =>
        /\ \A w \in Writers : ret[w].read = pre.files
        /\ \E w \in Writers :
              /\ pre.last[owner_table(call[w])] = w
              /\ Files[owner_table(call[w])] = ret[w].out[owner_table(call[w])]
        /\ \E w \in Writers :
              /\ pre.last.participants = w
              /\ participants_csv = ret[w].out.participants
        /\ \A w \in Writers :
              (pre.last[owner_table(call[w])] = w /\ pre.last.participants = w) =>
                  \A k \in Range(call[Other(w)].keys) :
                      /\ k \notin OwnerRowLists(Files, call[w])
                      /\ ~ParticipantNames(Files, call[w], k)

\* A has saved both files and then B has saved both: E1, whom A had
\* registered for V1, is in no list of V1
C34_Witness ==
    /\ BothReadFirst
    /\ call["A"].op = "event"
    /\ pre.last.events = "B"
    /\ pre.last.participants = "B"
    /\ "E1" \in OwnerRowLists(ret["A"].out, call["A"])
    /\ "E1" \notin OwnerRowLists(Files, call["A"])
    /\ "u@x.com" \in OwnerRowLists(Files, call["A"])

-----------------------------------------------------------------------------
\* Any sequence of event-status and cohort-membership updates, mixed: every
\* key list (those that repeat a key too), for the event V1 with the first
\* flag or none, for the cohort C1 with the last flag, added or removed.
RegisterCalls ==
    {EventCall(k, "V1", fl) :
        k \in KeyLists \ {<<>>},
        fl \in {<<"True", "False", "False">>, <<"False", "False", "False">>}}

JoinCalls ==
    {c \in PlainCohortCalls :
        c.target = "C1" /\ c.keys # <<>> /\ c.flags = <<"False", "False", "True">>}

UpdateEventStatusMixed == Call(RegisterCalls, TRUE)

UpdateCohortMembershipMixed == Call(JoinCalls, TRUE)

NextMixed == UpdateEventStatusMixed \/ UpdateCohortMembershipMixed \/ ReportResult

SpecMixed == Init /\ [][NextMixed]_vars

\* C35: starting from a participants table with no duplicate Standard ID,
\* after any sequence of event-status and cohort-membership updates (key
\* lists that repeat a key included) the participants table has at most
\* one row per Standard ID.
C35_OneRowPerStandardID ==
    \A i, j \in 1..Len(participants_csv) :
        participants_csv[i].StandardID = participants_csv[j].StandardID => i = j

\* an event update and a cohort update have both named E1 twice in their
\* key list, and E1 has the one row that the first of them has created
C35_Witness ==
    /\ pc = "returned"
    /\ call.keys = <<"E1", "E1">>
    /\ call.op = "cohort"
    /\ \E i \in 1..Len(pre.participants) :
          /\ pre.participants[i].StandardID = "E1"
          /\ pre.participants[i].EventsRegistered = <<"V1">>
    /\ \E i \in 1..Len(participants_csv) :
          /\ participants_csv[i].StandardID = "E1"
          /\ participants_csv[i].EventsRegistered = <<"V1">>
          /\ participants_csv[i].CohortsJoined = <<"C1">>

-----------------------------------------------------------------------------
\* C36: an event-status update on an existing event changes no cell of the
\* events file other than Registrations, Participants and Hosted of the
\* target row: every other row, and the Event ID, Name, Date, Category and
\* Workshop of the target row, are stored exactly as before the call, a
\* Date that is no parseable date included.
C36_EventUpdateFrame ==
    EventUpdateRan =>
        /\ Len(events_csv) = Len(pre.events)
        /\ \A i \in 1..Len(pre.events) :
              IF i = event_idx(pre.events, call.target)
              THEN [events_csv[i] EXCEPT
                       !.Registrations = pre.events[i].Registrations,
                       !.Participants = pre.events[i].Participants,
                       !.Hosted = pre.events[i].Hosted] = pre.events[i]
              ELSE events_csv[i] = pre.events[i]

-----------------------------------------------------------------------------
\* The event update that has returned had no flag that is True
NoFlagTrue == \A d \in Dimensions : call.flags[d] # "True"

\* The list fields of a participants row, as sets
ListFields(row) ==
    [d \in Dimensions |->
        <<Range(ParticipantEventList(row, d)), Range(ParticipantCohortList(row, d))>>]

\* C37: an event-status update on an existing event with a non-empty key
\* list and no flag true creates a participants row for every supplied key
\* that has none, with every list field empty and Last Updated empty,
\* writes both files, returns (0, 0, 0), and leaves every list field of
\* the event rows and of the participants rows that existed as it was.
C37_NoFlagStillCreatesRows ==
    (EventUpdateRan /\ NoFlagTrue) =>
        /\ ret = <<0, 0, 0>>
        /\ \A k \in NewKeys :
              \E j \in (Len(pre.participants) + 1)..Len(participants_csv) :
                 /\ participants_csv[j].StandardID = k
                 /\ participants_csv[j].LastUpdated = BlankParticipantRow.LastUpdated
                 /\ \A d \in Dimensions :
                       /\ ParticipantEventList(participants_csv[j], d) = <<>>
                       /\ ParticipantCohortList(participants_csv[j], d) = <<>>
        /\ Len(participants_csv) = Len(pre.participants) + Cardinality(NewKeys)
        /\ \A j \in 1..Len(pre.participants) :
              /\ participants_csv[j].StandardID = pre.participants[j].StandardID
              /\ ListFields(participants_csv[j]) = ListFields(pre.participants[j])
              /\ participants_csv[j].LastUpdated = pre.participants[j].LastUpdated
        /\ Len(events_csv) = Len(pre.events)
        /\ \A i \in 1..Len(pre.events) :
              \A d \in Dimensions :
                  Range(EventList(events_csv[i], d)) = Range(EventList(pre.events[i], d))
        /\ events_csv = save_table("events", read_table("events", pre.events))
        /\ cache = NoCache

\* no flag is True, u@x.com has its row and E1, who had none, has got an
\* empty one
C37_Witness ==
    /\ EventUpdateRan
    /\ NoFlagTrue
    /\ call.keys = <<"E1", "u@x.com">>
    /\ NewKeys = {"E1"}
    /\ Len(participants_csv) = Len(pre.participants) + 1
    /\ participants_csv[Len(participants_csv)].StandardID = "E1"
    /\ participants_csv[Len(participants_csv)].EventsRegistered = <<>>

-----------------------------------------------------------------------------
(* Start-up and restore together: once the script has passed the start-up  *)
(* block it comes to the System panel, where a backup may be restored; the *)
(* restore ends with st.rerun(), that is with the next run of the script.  *)

\* "Confirm Restore" in the System panel, and st.rerun()
RestoreFromPanel ==
    /\ pc = "ready"
    /\ data_dir
    /\ \E chosen \in DOMAIN backups, now \in {clock, clock + 1} :
          /\ now <= MaxClock
          /\ LET r == restore(data_dir, Disk, backups, chosen, now)
             IN  /\ WriteDisk(r.disk)
                 /\ backups' = r.backups
          /\ clock' = now
          /\ pre' = [disk |-> Disk, marker |-> version_json, failed |-> <<>>,
                     again |-> FALSE, chosen |-> backups[chosen]]
    /\ call' = [NoStartup EXCEPT !.op = "restore"]
    /\ ret' = "None"
    /\ cache' = NoCache
    /\ pc' = "stopped"
    /\ UNCHANGED <<version_json, data_dir>>

\* backups/ when the application starts: empty, or with backup_1, taken
\* when the participants file was of schema 1.2.2 and no identifier had
\* been logged yet
EarlierBackups ==
    {NoBackups,
     [t \in {1} |-> csv_files([events |-> EventsFile, cohorts |-> AbsentFile,
                               participants |-> Participants122,
                               employees |-> AbsentFile,
                               could_not_find |-> AbsentFile])]}

\* A data directory with some files, any marker, and the backups there are
InitRecover ==
    /\ data_dir = TRUE
    /\ events_csv = EventsFile
    /\ participants_csv \in {AbsentFile, EmptyFile, Participants122,
                             Participants123, ParticipantsBoth}
    /\ could_not_find_csv \in {AbsentFile, LogFile}
    /\ cohorts_csv = AbsentFile
    /\ employees_csv = AbsentFile
    /\ version_json \in Markers
    /\ backups \in EarlierBackups
    /\ cache = NoCache
    /\ clock = 1
    /\ pc = "stopped"
    /\ call = NoStartup
    /\ ret = "None"
    /\ pre = [disk |-> Disk, marker |-> version_json, failed |-> <<>>,
              again |-> FALSE]

NextRecover == NextStartup \/ RestoreFromPanel

SpecRecover == InitRecover /\ [][NextRecover]_vars

\* A restore has just been made
Restored == pc = "stopped" /\ call.op = "restore"

\* C38: a restore leaves the schema version marker as it was and leaves
\* untouched every file of the data directory that has no counterpart in
\* the chosen backup; so when the marker holds the target version, as it
\* does after a migration, it still does after the restore of a backup
\* taken before that migration, and the start-up that follows runs no
\* transform on the restored files, takes no backup and leaves the marker.
C38_RestoreKeepsMarker ==
    /\ [](Restored =>
             /\ version_json = pre.marker
             /\ \A n \in DOMAIN Disk :
                   n \notin DOMAIN pre.chosen => Disk[n] = pre.disk[n]
             /\ \A n \in DOMAIN pre.chosen :
                   Disk[n] = pre.chosen[n] \/ Disk[n] = pre.disk[n])
    /\ [][(Restored /\ version_json = APP_VERSION) =>
             /\ pc' = "ready"
             /\ call'.op = "startup"
             /\ call'.outcome = "none"
             /\ Disk' = Disk
             /\ backups' = backups
             /\ version_json' = APP_VERSION]_vars

\* the start-up has migrated 1.2.2 -> 1.2.3 behind a backup, that backup
\* has been restored, and the start-up after the restore has passed: the
\* participants file is of schema 1.2.2 again, the log file, of which the
\* backup has no copy, is there as before, and the marker says 1.2.3
C38_Witness ==
    /\ pc = "ready"
    /\ call.op = "startup"
    /\ call.current = APP_VERSION
    /\ call.outcome = "none"
    /\ version_json = APP_VERSION
    /\ participants_csv = Participants122
    /\ could_not_find_csv = LogFile
    /\ \E t \in DOMAIN backups :
          /\ "participants" \in DOMAIN backups[t]
          /\ backups[t].participants =
                migrate_from_1_2_2_to_1_2_3(
                    [Disk EXCEPT !.participants = Participants122]).participants

====
